---- MODULE Spec2Model ----
(***************************************************************************)
(* Trader (execution and position guard) of trading-ai, together with the  *)
(* part of main.py that decides whether a trade is attempted.              *)
(*                                                                         *)
(* The exchange is modelled by what the Binance client reads and writes:   *)
(* the open position sides of a symbol, the resting conditional orders,    *)
(* the available balance.  Every exchange call either returns or raises;   *)
(* which of the two happens is chosen nondeterministically.                *)
(*                                                                         *)
(* Python floats are modelled as exact rationals <<n, d>> with d > 0; the  *)
(* pair <<0, 0>> is NaN, whose comparisons are all false as in IEEE 754.   *)
(***************************************************************************)
EXTENDS Integers, Sequences, FiniteSets, TLC

\* ---------------------------------------------------------------- bounds
\* Order ids the exchange can still hand out; an order sent after the last
\* one is rejected.
MaxOrderId == 4

\* Number of analysis results in one scan batch.
MaxBatch == 2

\* ------------------------------------------------------- program constants
DEFAULT_LEVERAGE == 10
ACCOUNT_BALANCE == 10000
MAX_LOSS_PER_TRADE == <<2, 100>>
MAX_POSITION_SIZE == <<3, 10>>
AI_CONFIDENCE_THRESHOLD == <<6, 10>>
RISK_PERCENT == <<1, 1>>
MARGIN_BUFFER == <<95, 100>>
ADJUST_FACTOR == <<99, 100>>
MIN_LEVERAGE == 1
MAX_EXCHANGE_LEVERAGE == 125

\* ------------------------------------------------------------- universes
Symbols == {"BTCUSDT"}
Sides == {"LONG", "SHORT"}
\* The action strings of an analysis, romanised: zuoduo = go long,
\* zuokong = go short, guanwang = stay out.
LONG_ACTION == "zuoduo"
SHORT_ACTION == "zuokong"
HOLD_ACTION == "guanwang"

\* --------------------------------------------------------- float helpers
NaN == <<0, 0>>
IsNaN(x) == x[2] = 0
R(n) == <<n, 1>>

RECURSIVE Gcd(_, _)
Gcd(a, b) == IF b = 0 THEN a ELSE Gcd(b, a % b)

Abs(n) == IF n < 0 THEN -n ELSE n

Norm(x) ==
    IF x[2] = 0 THEN NaN
    ELSE LET g == Gcd(Abs(x[1]), Abs(x[2]))
             s == IF x[2] < 0 THEN -1 ELSE 1
         IN  <<(s * x[1]) \div g, (s * x[2]) \div g>>

FMul(a, b) == IF IsNaN(a) \/ IsNaN(b) THEN NaN ELSE Norm(<<a[1] * b[1], a[2] * b[2]>>)
FDiv(a, b) == IF IsNaN(a) \/ IsNaN(b) THEN NaN ELSE Norm(<<a[1] * b[2], a[2] * b[1]>>)
FSub(a, b) == IF IsNaN(a) \/ IsNaN(b) THEN NaN ELSE Norm(<<a[1] * b[2] - b[1] * a[2], a[2] * b[2]>>)
FAbs(a) == IF IsNaN(a) THEN NaN ELSE <<Abs(a[1]), a[2]>>
FLt(a, b) == ~IsNaN(a) /\ ~IsNaN(b) /\ a[1] * b[2] < b[1] * a[2]
FLe(a, b) == ~IsNaN(a) /\ ~IsNaN(b) /\ a[1] * b[2] <= b[1] * a[2]
FGt(a, b) == FLt(b, a)
FGe(a, b) == FLe(b, a)
FEq(a, b) == ~IsNaN(a) /\ ~IsNaN(b) /\ a[1] * b[2] = b[1] * a[2]

\* ------------------------------------------------- Python values of a dict
\* t = "none": the key is missing or None; "str": a non-numeric string;
\* "nan": float('nan'); "num": the integer v.
PyNone == [t |-> "none", v |-> 0]
PyStr == [t |-> "str", v |-> 0]
PyNaN == [t |-> "nan", v |-> 0]
PyNum(n) == [t |-> "num", v |-> n]

\* bool(x)
Truthy(x) == x.t \in {"str", "nan"} \/ (x.t = "num" /\ x.v # 0)
\* float(x) raises for None and for a non-numeric string
FloatRaises(x) == x.t \in {"none", "str"}
ToFloat(x) == IF x.t = "nan" THEN NaN ELSE R(x.v)
\* int(x) raises for None, a non-numeric string and NaN
IntRaises(x) == x.t \in {"none", "str", "nan"}


\* ------------------------------------------------------ analysis results
\* Symbols whose upper-cased text contains USDT, BUSD or USD.
QuotedSymbols == Symbols
SymbolInputs == Symbols \cup {"", "BTC"}
ActionInputs == {LONG_ACTION, SHORT_ACTION, HOLD_ACTION, "buy"}
ConfidenceInputs == {<<5, 10>>, <<8, 10>>}
EntryInputs == {PyNone, PyStr, PyNaN, PyNum(-1), PyNum(100)}
StopInputs == {PyNaN, PyNum(90), PyNum(95), PyNum(105)}
TakeInputs == {PyNum(95), PyNum(110)}
LeverageInputs == {PyNum(5), PyNum(200)}
SizeInputs == {PyNone, PyStr, PyNum(1)}
Balances == {0, 100}

\* Every symbol, action and confidence, with one set of trade parameters:
\* the first two checks of execute_trade read nothing else.
SignalInputs ==
    [symbol : SymbolInputs, action : ActionInputs, confidence : ConfidenceInputs,
     entry_price : {PyNum(100)}, stop_loss : {PyNum(95)}, take_profit : {PyNum(110)},
     leverage : {PyNum(5)}, position_size : {PyNone}]

\* Under a signal that passes the first two checks: every entry price
\* with one stop and one take-profit, and every stop and take-profit with
\* the entry price 100.
PriceInputs ==
    {a \in [symbol : Symbols, action : {LONG_ACTION, SHORT_ACTION}, confidence : {<<8, 10>>},
            entry_price : EntryInputs, stop_loss : StopInputs, take_profit : TakeInputs,
            leverage : {PyNum(5)}, position_size : {PyNone}] :
        a.entry_price # PyNum(100) => a.stop_loss = PyNum(95) /\ a.take_profit = PyNum(110)}

\* Every combination of stop, leverage and quantity, with an entry price
\* and a take-profit that pass the price checks with some of the stops.
SizingInputs ==
    [symbol : Symbols, action : {LONG_ACTION}, confidence : {<<8, 10>>},
     entry_price : {PyNum(100)}, stop_loss : StopInputs, take_profit : {PyNum(110)},
     leverage : LeverageInputs, position_size : SizeInputs]

Analyses == SignalInputs \cup PriceInputs \cup SizingInputs

NoAnalysis ==
    [symbol |-> "", action |-> HOLD_ACTION, confidence |-> <<5, 10>>,
     entry_price |-> PyNone, stop_loss |-> PyNaN, take_profit |-> PyNum(90),
     leverage |-> PyNum(5), position_size |-> PyNone]

\* ------------------------------------------------------------------ state
VARIABLES
    active_positions,   \* Trader.active_positions: symbol -> "ABSENT" or the cached side
    active_orders,      \* Trader.active_orders: symbol -> tracked stop-loss / take-profit ids
    cached_balance,     \* Trader._cached_balance, 0 for None
    exchPos,            \* exchange: symbol -> set of sides with a non-zero position
    exchOrders,         \* exchange: resting conditional orders
    exchBalance,        \* exchange: availableBalance of the account
    next_order_id,      \* exchange: the next orderId it assigns
    pc,                 \* position of the running call: "idle" when none runs,
                        \* "returned" while its result is with the caller
    cur,                \* analysis_result of the running execute_trade
    loc,                \* locals of the running execute_trade; what is left of them after it
    cp,                 \* frame of the running / last close_position
    calls,              \* exchange calls made by the running / last top-level call
    result,             \* what the last top-level call returned
    opened,             \* symbol -> an execute_trade succeeded and no close_position completed since
    env,                \* config.TRADING_ENVIRONMENT
    trader,             \* main: a Trader is attached to the scanner
    auto_scan,          \* config.AUTO_SCAN
    mpc,                \* position of main's scan driver
    batch,              \* scanner.analysis_results of the current scan
    queue               \* results still to be handed to execute_trade

\* The exchange adapter's HTTP layer (BinanceClient._request and the key
\* validation made on construction).
VARIABLES
    rpc,                \* position of the running adapter call: "idle", "sent", "returned", "raised"
    req,                \* the running adapter call and its arguments
    query_string,       \* the string the signature was computed over ("" when unsigned)
    wire_query,         \* the query string of the HTTP request last sent
    sends,              \* HTTP requests sent by the running adapter call
    reply               \* what the adapter call gave its caller

requestVars == <<rpc, req, query_string, wire_query, sends, reply>>

NoRequest == [op |-> "none", signed |-> FALSE, params |-> <<>>]
NoReply == [kind |-> "none", status |-> 0]

RequestIdle ==
    /\ rpc = "idle"
    /\ req = NoRequest
    /\ query_string = ""
    /\ wire_query = ""
    /\ sends = 0
    /\ reply = NoReply

\* One scan of the MarketScanner (scan_and_analyze).
VARIABLES
    apc,                \* position of scan_and_analyze: "idle", "analysing", "done"
    concurrent,         \* the scan runs _analyze_concurrent (else _analyze_sequential)
    tasks,              \* per selected symbol: the position and outcome of its analysis
    semaphore,          \* free slots of the asyncio.Semaphore
    analysis_results,   \* MarketScanner.analysis_results, as indices of the symbols
    peak                \* most analyses in progress at once during this scan

analyzeVars == <<apc, concurrent, tasks, semaphore, analysis_results, peak>>

AnalyzeIdle ==
    /\ apc = "idle"
    /\ concurrent = FALSE
    /\ tasks = <<>>
    /\ semaphore = 0
    /\ analysis_results = <<>>
    /\ peak = 0

\* The MarketScanner's auto-scan loop.
VARIABLES
    is_scanning,        \* MarketScanner._is_scanning
    auto_scan_task,     \* MarketScanner._auto_scan_task: where the loop task stands, whether
                        \* a cancellation is on its way, where the cancellation reached it,
                        \* what the loop has done since the task began or since its last
                        \* scan ended (before_scan), how its last batch ended (batch)
    lp,                 \* locals of the loop: symbols and trades still to do, the alignment wait
    stop_pc,            \* position of stop_auto_scan: "idle", "awaiting", "returned"
    late_work           \* the loop began a scan, an analysis or a trade after stop_auto_scan
                        \* had cancelled it

autoVars == <<is_scanning, auto_scan_task, lp, stop_pc, late_work>>

NoTask ==
    [pc |-> "none", must_cancel |-> FALSE, cancelled_at |-> "none", align |-> TRUE,
     before_scan |-> "nothing", batch |-> "none"]
NoLoop == [symbols |-> 0, trades |-> 0, remaining |-> 0, wait |-> 0]

AutoIdle ==
    /\ is_scanning = FALSE
    /\ auto_scan_task = NoTask
    /\ lp = NoLoop
    /\ stop_pc = "idle"
    /\ late_work = FALSE

\* One call of BinanceClient.get_klines.
VARIABLES
    kpc,                \* position of get_klines: "idle", "requesting", "returned"
    kl                  \* its arguments and locals; all_klines holds the open times, and
                        \* the list returned once it has returned

klineVars == <<kpc, kl>>

NoKlines ==
    [limit |-> 0, include_current |-> FALSE, remaining |-> 0, current_end_time |-> 0,
     all_klines |-> <<>>, requests |-> <<>>, failed |-> FALSE]

KlineIdle ==
    /\ kpc = "idle"
    /\ kl = NoKlines

\* The review post-hook (perform_review_from_history).
VARIABLES
    hpc,                    \* position of the hook: "idle", "fetching", "done"
    recent_trades,          \* the complete trades the hook selected for review
    review_calls,           \* the trades handed to analyzer.review_trade so far
    reviewed_symbols_file   \* the symbols recorded as reviewed on disk

hookVars == <<hpc, recent_trades, review_calls, reviewed_symbols_file>>

HookIdle ==
    /\ hpc = "idle"
    /\ recent_trades = <<>>
    /\ review_calls = <<>>
    /\ reviewed_symbols_file = {}

\* The analyzer's rolling context and its files (MarketAnalyzer, ContextManager).
VARIABLES
    review_knowledge,       \* MarketAnalyzer.review_knowledge, entries numbered as added
    optimized_strategies,   \* MarketAnalyzer.optimized_strategies
    learning_results,       \* MarketAnalyzer.learning_results
    context_files,          \* the three payload files on disk
    context_added,          \* per list, how many entries were ever added
    saving                  \* per file, where a running save stands: "idle", "pending"
                            \* (not yet opened) or "opened" (truncated, not yet written)

contextVars ==
    <<review_knowledge, optimized_strategies, learning_results, context_files, context_added,
      saving>>

ContextKinds == {"review", "strategy", "learning"}

NoFile == [exists |-> FALSE, complete |-> TRUE, count |-> 0, payload |-> <<>>]

ContextIdle ==
    /\ review_knowledge = <<>>
    /\ optimized_strategies = <<>>
    /\ learning_results = <<>>
    /\ context_files = [k \in ContextKinds |-> NoFile]
    /\ context_added = [k \in ContextKinds |-> 0]
    /\ saving = [k \in ContextKinds |-> "idle"]

\* One analysis of one symbol (MarketAnalyzer.analyze_market and its parser).
VARIABLES
    parsing,                \* _parse_analysis_response at work on one response
    analysis                \* analyze_market from the LLM's response to its return

analysisVars == <<parsing, analysis>>

NoParsing ==
    [pc |-> "idle", response |-> <<>>, json_str |-> <<>>, data |-> <<>>, exc |-> "none",
     caught |-> "none", raised |-> "none", result |-> <<>>]

NotAnalysing ==
    [pc |-> "idle", response |-> <<>>, atr |-> 0, parsed |-> <<>>, result |-> <<>>,
     exc |-> "none"]

AnalysisIdle ==
    /\ parsing = NoParsing
    /\ analysis = NotAnalysing

\* The symbol parser at work (SymbolParser).
VARIABLES
    sym,                    \* one parse, normalize, parse round trip
    search                  \* one smart_search call

symbolVars == <<sym, search>>

NoSym ==
    [pc |-> "idle", input |-> <<>>, first |-> <<>>, normalized |-> <<>>, second |-> <<>>]

NoSearch == [pc |-> "idle", input |-> <<>>, symbols |-> <<>>, results |-> <<>>]

SymbolIdle ==
    /\ sym = NoSym
    /\ search = NoSearch

\* One indicator calculation (IndicatorCalculator).
VARIABLES
    ema                     \* one calculate_ema call

indicatorVars == <<ema>>

NoEma == [pc |-> "idle", backend |-> "none", period |-> 0, close |-> <<>>, out |-> <<>>]

IndicatorIdle == ema = NoEma

\* One BinanceClient from __init__ through __aenter__ to its signed requests.
VARIABLES
    client,                 \* where the client stands and its time_offset; synced tells
                            \* what _sync_server_time has done so far, offset_writes counts
                            \* the assignments to time_offset after __init__
    signed_sent             \* the signed HTTP requests sent so far, each with the local
                            \* clock it was stamped at and what synced said at that time

clientVars == <<client, signed_sent>>

NoClient == [pc |-> "none", time_offset |-> 0, synced |-> "not_yet", offset_writes |-> 0]

ClientIdle ==
    /\ client = NoClient
    /\ signed_sent = {}

\* Mutators of the analyzer's context running as concurrent tasks of one
\* event loop.
VARIABLES
    has_aiofiles,           \* ContextManager's HAS_AIOFILES: "unset" before the import, "yes", "no"
    writers                 \* per mutator task, where its save of the strategies file
                            \* stands, the list object its data refers to once that is no
                            \* longer the analyzer's, and the text its file object buffers

writerVars == <<has_aiofiles, writers>>

NumWriters == 2
Writers == 1..NumWriters

NoWriter == [pc |-> "idle", live |-> TRUE, held |-> <<>>, buffer |-> <<>>]

WriterIdle ==
    /\ has_aiofiles = "unset"
    /\ writers = [w \in Writers |-> NoWriter]

\* One process of the analyzer from its start to its first uses of the context.
VARIABLES
    context_loaded,         \* MarketAnalyzer._context_loaded
    persisted,              \* per list, the payload that was on disk when the process started
    unloaded_add            \* an entry was added in this process before the context was loaded

processVars == <<context_loaded, persisted, unloaded_add>>

ProcessIdle ==
    /\ context_loaded = FALSE
    /\ persisted = [k \in ContextKinds |-> <<>>]
    /\ unloaded_add = FALSE

\* One risk override (_enhance_with_risk_management) from the indicator map
\* to its stop-loss.
VARIABLES
    risk                    \* the call's arguments, the ATR it took and the stop it computed

riskVars == <<risk>>

NoRisk ==
    [pc |-> "idle", indicators |-> <<>>, entry_price |-> 0, action |-> "", atr |-> PyNone,
     stop_loss |-> PyNone]

RiskIdle == risk = NoRisk

\* One computation of the wait for the next kline (time_helpers).
VARIABLES
    kt                      \* the timeframe, the instant (ms since the epoch), its floor
                            \* and ceil alignments and the time until the next kline

timeVars == <<kt>>

NoKlineTime ==
    [pc |-> "idle", period_ms |-> 0, now |-> 0, floor |-> 0, ceil |-> 0, until |-> 0]

TimeIdle == kt = NoKlineTime

\* One selection of the universe (MarketScanner.scan_symbols).
VARIABLES
    sel                     \* the settings and rankings of the call, and what it returned

selectVars == <<sel>>

NoSelection ==
    [pc |-> "idle", custom |-> <<>>, scan_types |-> <<>>, top_n |-> 0, rankings |-> <<>>,
     symbols |-> <<>>, via |-> "none"]

SelectIdle == sel = NoSelection

\* execute_trade calls for one symbol running as concurrent tasks on one Trader.
VARIABLES
    racers,                 \* per call, where it stands, whether the position was open when
                            \* it was called, whether it has sent its entry order, its result
    cached,                 \* the symbol is in Trader.active_positions
    position_open,          \* the exchange holds a position of the symbol
    closed                  \* the exchange has closed a position of the symbol

raceVars == <<racers, cached, position_open, closed>>

NumCalls == 2
Calls == 1..NumCalls

NoRacer == [pc |-> "idle", late |-> FALSE, sent_entry |-> FALSE, outcome |-> "none"]

RaceIdle ==
    /\ racers = [t \in Calls |-> NoRacer]
    /\ cached = FALSE
    /\ position_open = FALSE
    /\ closed = FALSE

\* start_auto_scan and stop_auto_scan called from several tasks of one event
\* loop, with every loop task the scanner has created.
VARIABLES
    scanner,            \* MarketScanner: _is_scanning, _auto_scan_task (a loop task or NoLoopTask),
                        \* and the loop the last effective start_auto_scan created with
                        \* whether stop_auto_scan has been called since, and whether a
                        \* start_auto_scan has ever run while a stop_auto_scan was awaiting
    loops,              \* every loop task: "none", "created", "awaiting" (at an await of the
                        \* loop body), "ended"; whether a cancellation is on its way
    stoppers            \* every stop_auto_scan call: "idle", "awaiting", "returned", and the
                        \* task it awaits

restartVars == <<scanner, loops, stoppers>>

MaxLoopTasks == 3
NumStoppers == 2
LoopTasks == 1..MaxLoopTasks
Stoppers == 1..NumStoppers
NoLoopTask == 0

RestartIdle ==
    /\ scanner = [is_scanning |-> FALSE, auto_scan_task |-> NoLoopTask, started |-> NoLoopTask,
                  stopped_since |-> FALSE, during_stop |-> FALSE]
    /\ loops = [t \in LoopTasks |-> [pc |-> "none", must_cancel |-> FALSE]]
    /\ stoppers = [s \in Stoppers |-> [pc |-> "idle", task |-> NoLoopTask]]

\* One IndicatorEngine.detect_cross call.
VARIABLES
    cross                   \* where the call stands, its two lines and what it returned

crossVars == <<cross>>

MaxLine == 5

NoCross == [pc |-> "idle", fast_line |-> <<>>, slow_line |-> <<>>, out |-> <<>>]

CrossIdle == cross = NoCross

\* scan_callback's loop over the tradable results and the execute_trade call
\* it awaits, with the exceptions raised inside the call.
VARIABLES
    guard,                  \* the running execute_trade: its step, the step whose exception
                            \* ended it (failed_at), the kinds of failure it went on after
                            \* (swallowed), what it returned
    trade_loop              \* the loop: trades of the batch, the results returned so far,
                            \* whether an exception left the loop, whether a cancellation
                            \* was raised inside a call

guardVars == <<guard, trade_loop>>

MaxGuardBatch == 2

NoGuard == [pc |-> "idle", failed_at |-> "none", swallowed |-> {}, out |-> "none"]
NoTradeLoop == [pc |-> "idle", trades |-> 0, results |-> <<>>, aborted |-> FALSE,
                cancelled |-> FALSE]

GuardIdle ==
    /\ guard = NoGuard
    /\ trade_loop = NoTradeLoop

sideVars ==
    <<requestVars, analyzeVars, autoVars, klineVars, hookVars, contextVars, analysisVars,
      symbolVars, indicatorVars, clientVars, writerVars, processVars, riskVars, timeVars,
      selectVars, raceVars, restartVars, crossVars, guardVars>>

\* Every component beside the Trader and main at rest.
SideIdle ==
    /\ RequestIdle
    /\ AnalyzeIdle
    /\ AutoIdle
    /\ KlineIdle
    /\ HookIdle
    /\ ContextIdle
    /\ AnalysisIdle
    /\ SymbolIdle
    /\ IndicatorIdle
    /\ ClientIdle
    /\ WriterIdle
    /\ ProcessIdle
    /\ RiskIdle
    /\ TimeIdle
    /\ SelectIdle
    /\ RaceIdle
    /\ RestartIdle
    /\ CrossIdle
    /\ GuardIdle

vars ==
    <<active_positions, active_orders, cached_balance, exchPos, exchOrders, exchBalance,
      next_order_id, pc, cur, loc, cp, calls, result, opened, env, trader, auto_scan,
      mpc, batch, queue, sideVars>>

traderVars == <<active_positions, active_orders, cached_balance>>
exchVars == <<exchPos, exchOrders, exchBalance, next_order_id>>
mainVars == <<env, trader, auto_scan, mpc, batch, queue>>

Untracked == [tracked |-> FALSE, stop_loss_order_id |-> 0, take_profit_order_id |-> 0,
              position_side |-> "NONE"]

NoLoc ==
    [symbol |-> "", was_cached |-> FALSE, was_open |-> FALSE, query_ok |-> FALSE,
     pre_positions |-> [s \in Symbols |-> "ABSENT"],
     pre_orders |-> [s \in Symbols |-> Untracked],
     entry_price |-> NaN, stop_loss |-> NaN, take_profit |-> NaN, leverage |-> 0,
     position_size |-> NaN, account_balance |-> 0, position_side |-> "NONE",
     entry_order |-> 0, stop_loss_order |-> 0]

NoFrame ==
    [pc |-> "idle", symbol |-> "", position_side |-> "ANY", caller |-> "none",
     todo |-> <<>>, results |-> <<>>, cancelled |-> <<>>, raised |-> FALSE]

NoResult ==
    [op |-> "none", success |-> FALSE, reason |-> "none", entry |-> 0, stop_loss |-> 0,
     take_profit |-> 0]

TraderInit ==
    /\ active_positions = [s \in Symbols |-> "ABSENT"]
    /\ active_orders = [s \in Symbols |-> Untracked]
    /\ cached_balance = 0

ExchangeInit ==
    /\ exchPos \in [Symbols -> {{}, Sides}]
    /\ exchOrders = {}
    /\ exchBalance \in Balances
    /\ next_order_id = 1

ControlInit ==
    /\ pc = "idle"
    /\ cur = NoAnalysis
    /\ loc = NoLoc
    /\ cp = NoFrame
    /\ calls = <<>>
    /\ result = NoResult
    /\ opened = [s \in Symbols |-> FALSE]

\* The Trader and main at rest, no position on the exchange.
CoreIdle ==
    /\ TraderInit
    /\ exchPos = [s \in Symbols |-> {}]
    /\ exchOrders = {}
    /\ exchBalance = 0
    /\ next_order_id = 1
    /\ ControlInit
    /\ env = "observe"
    /\ trader = FALSE
    /\ auto_scan = FALSE
    /\ mpc = "api"
    /\ batch = <<>>
    /\ queue = <<>>

coreVars ==
    <<active_positions, active_orders, cached_balance, exchPos, exchOrders, exchBalance,
      next_order_id, pc, cur, loc, cp, calls, result, opened, env, trader, auto_scan,
      mpc, batch, queue>>

\* What an action of one component leaves alone beside its own variables.
restRequest ==
    <<coreVars, analyzeVars, autoVars, klineVars, hookVars, contextVars, analysisVars,
      symbolVars, indicatorVars, clientVars, writerVars, processVars, riskVars, timeVars,
      selectVars, raceVars, restartVars, crossVars, guardVars>>
restAnalyze ==
    <<coreVars, requestVars, autoVars, klineVars, hookVars, contextVars, analysisVars,
      symbolVars, indicatorVars, clientVars, writerVars, processVars, riskVars, timeVars,
      selectVars, raceVars, restartVars, crossVars, guardVars>>
restAuto ==
    <<coreVars, requestVars, analyzeVars, klineVars, hookVars, contextVars, analysisVars,
      symbolVars, indicatorVars, clientVars, writerVars, processVars, riskVars, timeVars,
      selectVars, raceVars, restartVars, crossVars, guardVars>>
restKlines ==
    <<coreVars, requestVars, analyzeVars, autoVars, hookVars, contextVars, analysisVars,
      symbolVars, indicatorVars, clientVars, writerVars, processVars, riskVars, timeVars,
      selectVars, raceVars, restartVars, crossVars, guardVars>>
restHook ==
    <<coreVars, requestVars, analyzeVars, autoVars, klineVars, contextVars, analysisVars,
      symbolVars, indicatorVars, clientVars, writerVars, processVars, riskVars, timeVars,
      selectVars, raceVars, restartVars, crossVars, guardVars>>
restContext ==
    <<coreVars, requestVars, analyzeVars, autoVars, klineVars, hookVars, analysisVars,
      symbolVars, indicatorVars, clientVars, writerVars, processVars, riskVars, timeVars,
      selectVars, raceVars, restartVars, crossVars, guardVars>>
restAnalysis ==
    <<coreVars, requestVars, analyzeVars, autoVars, klineVars, hookVars, contextVars, symbolVars,
      indicatorVars, clientVars, writerVars, processVars, riskVars, timeVars, selectVars,
      raceVars, restartVars, crossVars, guardVars>>
restSymbol ==
    <<coreVars, requestVars, analyzeVars, autoVars, klineVars, hookVars, contextVars,
      analysisVars, indicatorVars, clientVars, writerVars, processVars, riskVars, timeVars,
      selectVars, raceVars, restartVars, crossVars, guardVars>>
restIndicator ==
    <<coreVars, requestVars, analyzeVars, autoVars, klineVars, hookVars, contextVars,
      analysisVars, symbolVars, clientVars, writerVars, processVars, riskVars, timeVars,
      selectVars, raceVars, restartVars, crossVars, guardVars>>
restClient ==
    <<coreVars, requestVars, analyzeVars, autoVars, klineVars, hookVars, contextVars,
      analysisVars, symbolVars, indicatorVars, writerVars, processVars, riskVars, timeVars,
      selectVars, raceVars, restartVars, crossVars, guardVars>>
restWriter ==
    <<coreVars, requestVars, analyzeVars, autoVars, klineVars, hookVars, analysisVars,
      symbolVars, indicatorVars, clientVars, processVars, riskVars, timeVars, selectVars,
      raceVars, restartVars, crossVars, guardVars>>
restProcess ==
    <<coreVars, requestVars, analyzeVars, autoVars, klineVars, hookVars, analysisVars,
      symbolVars, indicatorVars, clientVars, writerVars, riskVars, timeVars, selectVars,
      raceVars, restartVars, crossVars, guardVars>>
restRisk ==
    <<coreVars, requestVars, analyzeVars, autoVars, klineVars, hookVars, contextVars,
      analysisVars, symbolVars, indicatorVars, clientVars, writerVars, processVars, timeVars,
      selectVars, raceVars, restartVars, crossVars, guardVars>>
restTime ==
    <<coreVars, requestVars, analyzeVars, autoVars, klineVars, hookVars, contextVars,
      analysisVars, symbolVars, indicatorVars, clientVars, writerVars, processVars, riskVars,
      selectVars, raceVars, restartVars, crossVars, guardVars>>
restSelect ==
    <<coreVars, requestVars, analyzeVars, autoVars, klineVars, hookVars, contextVars,
      analysisVars, symbolVars, indicatorVars, clientVars, writerVars, processVars, riskVars,
      timeVars, raceVars, restartVars, crossVars, guardVars>>
restRace ==
    <<coreVars, requestVars, analyzeVars, autoVars, klineVars, hookVars, contextVars,
      analysisVars, symbolVars, indicatorVars, clientVars, writerVars, processVars, riskVars,
      timeVars, selectVars, restartVars, crossVars, guardVars>>
restRestart ==
    <<coreVars, requestVars, analyzeVars, autoVars, klineVars, hookVars, contextVars,
      analysisVars, symbolVars, indicatorVars, clientVars, writerVars, processVars, riskVars,
      timeVars, selectVars, raceVars, crossVars, guardVars>>
restCross ==
    <<coreVars, requestVars, analyzeVars, autoVars, klineVars, hookVars, contextVars,
      analysisVars, symbolVars, indicatorVars, clientVars, writerVars, processVars, riskVars,
      timeVars, selectVars, raceVars, restartVars, guardVars>>
restGuard ==
    <<coreVars, requestVars, analyzeVars, autoVars, klineVars, hookVars, contextVars,
      analysisVars, symbolVars, indicatorVars, clientVars, writerVars, processVars, riskVars,
      timeVars, selectVars, raceVars, restartVars, crossVars>>

\* The Trader driven through its public methods; main's driver is not running.
Init ==
    /\ TraderInit
    /\ ExchangeInit
    /\ ControlInit
    /\ SideIdle
    /\ env = "testnet"
    /\ trader = TRUE
    /\ auto_scan = FALSE
    /\ mpc = "api"
    /\ batch = <<>>
    /\ queue = <<>>


\* ------------------------------------------------------- exchange adapter
\* get_position: the rows with a non-zero positionAmt, LONG before SHORT.
PositionRows(s) ==
    (IF "LONG" \in exchPos[s] THEN <<"LONG">> ELSE <<>>)
        \o (IF "SHORT" \in exchPos[s] THEN <<"SHORT">> ELSE <<>>)

\* place_futures_order returns the order only when the exchange accepts it.
CanAccept == next_order_id <= MaxOrderId

RestingOrder(id, s, type, side) ==
    [id |-> id, symbol |-> s, type |-> type, position_side |-> side]

\* -------------------------------------------------------------- Trader
ETFail(reason, entry_id) ==
    [op |-> "execute_trade", success |-> FALSE, reason |-> reason, entry |-> entry_id,
     stop_loss |-> 0, take_profit |-> 0]

\* What outlives the frame of execute_trade: the facts recorded about the
\* call, without the numbers it computed.
Popped(l) ==
    [l EXCEPT !.entry_price = NaN, !.stop_loss = NaN, !.take_profit = NaN,
              !.leverage = 0, !.position_size = NaN, !.account_balance = 0]

\* A return statement of execute_trade.
Return(res, l) ==
    /\ pc' = "returned"
    /\ result' = res
    /\ cur' = NoAnalysis
    /\ loc' = Popped(l)

\* execute_trade moves on to its next step.
Continue(next, l) ==
    /\ pc' = next
    /\ loc' = l
    /\ UNCHANGED <<cur, result>>

\* _check_existing_position: the first reported row, None when the query
\* raises or reports nothing.
CheckExistingPosition(ok, s) ==
    IF ok /\ PositionRows(s) # <<>> THEN PositionRows(s)[1] ELSE "NONE"

\* Steps 0 and 1 of execute_trade: symbol, action and confidence.
ValidateSignal(a) ==
    IF a.symbol = "" THEN "invalid_symbol"
    ELSE IF a.symbol \notin QuotedSymbols THEN "invalid_symbol_format"
    ELSE IF a.action = HOLD_ACTION \/ FLt(a.confidence, AI_CONFIDENCE_THRESHOLD) THEN "hold"
    ELSE "ok"

LeverageOf(a) == IF a.leverage.t = "none" THEN DEFAULT_LEVERAGE ELSE a.leverage.v

CoerceLeverage(l) ==
    IF l < MIN_LEVERAGE \/ l > MAX_EXCHANGE_LEVERAGE THEN DEFAULT_LEVERAGE ELSE l

\* Steps 3.1 - 3.4 of execute_trade: the prices of the analysis.
ValidateParams(a) ==
    LET E == ToFloat(a.entry_price)
        S == ToFloat(a.stop_loss)
        T == ToFloat(a.take_profit)
    IN  IF ~(Truthy(a.entry_price) /\ Truthy(a.stop_loss) /\ Truthy(a.take_profit))
            THEN "missing_prices"
        ELSE IF \/ FloatRaises(a.entry_price) \/ FloatRaises(a.stop_loss)
                \/ FloatRaises(a.take_profit)
                \/ (a.leverage.t # "none" /\ IntRaises(a.leverage))
            THEN "param_type"
        ELSE IF FLe(E, R(0)) \/ FLe(S, R(0)) \/ FLe(T, R(0)) THEN "price_nonpositive"
        ELSE IF a.action = LONG_ACTION /\ FGe(S, E) THEN "long_stop"
        ELSE IF a.action = LONG_ACTION /\ FLe(T, E) THEN "long_take"
        ELSE IF a.action = SHORT_ACTION /\ FLe(S, E) THEN "short_stop"
        ELSE IF a.action = SHORT_ACTION /\ FGe(T, E) THEN "short_take"
        ELSE "ok"

\* RiskCalculator.calculate_position_size
CalculatePositionSize(balance, E, S, L) ==
    LET risk_amount == FMul(R(balance), FDiv(RISK_PERCENT, R(100)))
        stop_distance_percent == FDiv(FAbs(FSub(E, S)), E)
        position_value == FDiv(risk_amount, stop_distance_percent)
        margin_required == FDiv(position_value, R(L))
        capped == IF FGt(margin_required, R(balance))
                  THEN FMul(R(balance), R(L)) ELSE position_value
    IN  IF FEq(stop_distance_percent, R(0)) THEN R(0) ELSE FDiv(capped, E)

\* Step 7.2 of execute_trade: a quantity whose notional exceeds
\* MAX_POSITION_SIZE of the balance is scaled down.
AdjustSize(size, balance, E) ==
    LET position_value == FMul(size, E)
        max_position_value == FMul(R(balance), MAX_POSITION_SIZE)
    IN  IF FGt(position_value, max_position_value)
        THEN FMul(FDiv(max_position_value, E), ADJUST_FACTOR) ELSE size

\* margin_required of step 7.3
MarginRequired(size, E, L) == FDiv(FMul(size, E), R(L))

\* potential_loss of step 7.4
PotentialLoss(action, size, E, S) ==
    IF action = LONG_ACTION THEN FMul(FSub(E, S), size) ELSE FMul(FSub(S, E), size)

\* Step 7.5 of execute_trade
RiskTooHigh(loss, balance) ==
    FGt(FMul(FDiv(loss, R(balance)), R(100)), FMul(MAX_LOSS_PER_TRADE, R(100)))

\* A Trader that would scale the quantity down to the loss limit where
\* step 7.5 refuses the trade.
SizeDecision_RiskScaled(a, balance, E, S, L) ==
    LET raw == a.position_size
        computed == raw.t = "none" \/ (raw.t = "num" /\ raw.v <= 0)
        size0 == IF computed THEN CalculatePositionSize(balance, E, S, L) ELSE ToFloat(raw)
        size1 == AdjustSize(size0, balance, E)
        loss == PotentialLoss(a.action, size1, E, S)
        size2 == IF RiskTooHigh(loss, balance)
                 THEN FMul(FMul(size1, FDiv(FMul(MAX_LOSS_PER_TRADE, R(balance)), loss)),
                           ADJUST_FACTOR)
                 ELSE size1
        reason == IF raw.t = "str" THEN "exception"
                  ELSE IF FLe(size0, R(0)) THEN "size_invalid"
                  ELSE IF FGt(MarginRequired(size1, E, L), FMul(R(balance), MARGIN_BUFFER))
                      THEN "margin"
                  ELSE "ok"
    IN  [reason |-> reason, size |-> size2]

\* Steps 7 - 7.5 of execute_trade: the quantity of the entry order, or the
\* reason the trade is refused.
SizeDecision(a, balance, E, S, L) ==
    LET raw == a.position_size
        computed == raw.t = "none" \/ (raw.t = "num" /\ raw.v <= 0)
        size0 == IF computed THEN CalculatePositionSize(balance, E, S, L) ELSE ToFloat(raw)
        size1 == AdjustSize(size0, balance, E)
        reason == IF raw.t = "str" THEN "exception"
                  ELSE IF FLe(size0, R(0)) THEN "size_invalid"
                  ELSE IF FGt(MarginRequired(size1, E, L), FMul(R(balance), MARGIN_BUFFER))
                      THEN "margin"
                  ELSE IF RiskTooHigh(PotentialLoss(a.action, size1, E, S), balance) THEN "risk"
                  ELSE "ok"
    IN  [reason |-> reason, size |-> size1]

\* execute_trade, lines 156-225: the prices and the leverage of the
\* analysis, once no position has been found.
ET_Params(a, l) ==
    IF ValidateParams(a) # "ok"
    THEN Return(ETFail(ValidateParams(a), 0), l)
    ELSE /\ pc' = "configure"
         /\ cur' = a
         /\ result' = NoResult
         /\ loc' = [l EXCEPT !.entry_price = ToFloat(a.entry_price),
                             !.stop_loss = ToFloat(a.stop_loss),
                             !.take_profit = ToFloat(a.take_profit),
                             !.leverage = CoerceLeverage(LeverageOf(a))]

\* execute_trade, lines 81-136: the call, its first two checks and the
\* position query; with nothing cached for the symbol the call goes on to
\* the prices.
ET_Begin(a) ==
    /\ pc = "idle"
    /\ cp.pc = "idle"
    /\ cp' = NoFrame
    /\ LET s == a.symbol
           l == [NoLoc EXCEPT !.symbol = s,
                              !.was_cached = (s \in Symbols /\ active_positions[s] # "ABSENT"),
                              !.was_open = (s \in Symbols /\ opened[s]),
                              !.pre_positions = active_positions,
                              !.pre_orders = active_orders]
       IN  IF ValidateSignal(a) # "ok"
           THEN /\ Return(ETFail(ValidateSignal(a), 0), l)
                /\ calls' = <<>>
                /\ UNCHANGED active_positions
           ELSE \E ok \in BOOLEAN :
                LET existing == CheckExistingPosition(ok, s) IN
                /\ calls' = <<"get_position">>
                /\ IF existing # "NONE"
                   THEN /\ active_positions' = [active_positions EXCEPT ![s] = existing]
                        /\ Return(ETFail("has_position", 0), l)
                   ELSE /\ UNCHANGED active_positions
                        /\ IF l.was_cached
                           THEN /\ pc' = "double_check"
                                /\ cur' = a
                                /\ result' = NoResult
                                /\ loc' = [l EXCEPT !.query_ok = ok]
                           ELSE ET_Params(a, [l EXCEPT !.query_ok = ok])
    /\ UNCHANGED <<active_orders, cached_balance, exchVars, opened>>

\* execute_trade, lines 138-225: the symbol is cached, the exchange is
\* asked again; a stale entry is dropped and the call goes on to the prices.
ET_DoubleCheck ==
    /\ pc = "double_check"
    /\ \E ok \in BOOLEAN :
        LET s == loc.symbol
            final_check == CheckExistingPosition(ok, s)
        IN  /\ calls' = Append(calls, "get_position")
            /\ IF final_check # "NONE"
               THEN /\ Return(ETFail("double_check", 0), loc)
                    /\ UNCHANGED active_positions
               ELSE /\ active_positions' = [active_positions EXCEPT ![s] = "ABSENT"]
                    /\ ET_Params(cur, [loc EXCEPT !.query_ok = @ \/ ok])
    /\ UNCHANGED <<active_orders, cached_balance, exchVars, cp, opened>>

\* execute_trade, lines 227-246, with _set_leverage and
\* _set_isolated_margin, whose failures are swallowed, then the direction
\* of the trade.
ET_Configure ==
    /\ pc = "configure"
    /\ calls' = calls \o <<"set_leverage", "set_margin_type">>
    /\ IF cur.action = LONG_ACTION
       THEN Continue("balance", [loc EXCEPT !.position_side = "LONG"])
       ELSE IF cur.action = SHORT_ACTION
       THEN Continue("balance", [loc EXCEPT !.position_side = "SHORT"])
       ELSE Return(ETFail("unknown_action", 0), loc)
    /\ UNCHANGED <<traderVars, exchVars, cp, opened>>

\* _get_account_balance: the cached balance while it is younger than 60 s,
\* else the one the exchange reports when that is positive, else
\* config.ACCOUNT_BALANCE.
GetAccountBalance(fresh, ok) ==
    IF cached_balance # 0 /\ fresh THEN cached_balance
    ELSE IF ok /\ exchBalance > 0 THEN exchBalance
    ELSE ACCOUNT_BALANCE

\* A Trader that would send the entry order before steps 7 - 7.5 and refuse
\* the trade afterwards.
ET_Balance_OrderFirst ==
    /\ pc = "balance"
    /\ \E ok \in BOOLEAN :
        LET balance == GetAccountBalance(FALSE, ok)
            d == SizeDecision(cur, balance, loc.entry_price, loc.stop_loss, loc.leverage)
            l == [loc EXCEPT !.account_balance = balance, !.position_size = d.size]
        IN  /\ cached_balance' = IF ok /\ exchBalance > 0 THEN exchBalance ELSE cached_balance
            /\ IF d.reason = "ok"
               THEN /\ calls' = Append(calls, "get_balance")
                    /\ Continue("entry", l)
               ELSE /\ calls' = calls \o <<"get_balance", "entry">>
                    /\ Return(ETFail(d.reason, 0), l)
    /\ UNCHANGED <<active_positions, active_orders, exchVars, cp, opened>>

\* execute_trade, lines 248-324: the balance, then the quantity.
ET_Balance ==
    /\ pc = "balance"
    /\ \E fresh \in BOOLEAN, ok \in BOOLEAN :
        LET use_cache == cached_balance # 0 /\ fresh
            fetched == ok /\ exchBalance > 0
            balance == GetAccountBalance(fresh, ok)
            d == SizeDecision(cur, balance, loc.entry_price, loc.stop_loss, loc.leverage)
            l == [loc EXCEPT !.account_balance = balance, !.position_size = d.size]
        IN  /\ use_cache => ok
            /\ cached_balance = 0 => fresh
            /\ calls' = IF use_cache THEN calls ELSE Append(calls, "get_balance")
            /\ cached_balance' = IF ~use_cache /\ fetched THEN exchBalance ELSE cached_balance
            /\ IF d.reason = "ok"
               THEN Continue("entry", l)
               ELSE Return(ETFail(d.reason, 0), l)
    /\ UNCHANGED <<active_positions, active_orders, exchVars, cp, opened>>

\* A Trader that would go on to the stop-loss order whether or not the
\* entry order was accepted.
ET_Entry_Unchecked ==
    /\ pc = "entry"
    /\ \E accepted \in BOOLEAN :
        LET s == loc.symbol IN
        /\ accepted => CanAccept
        /\ calls' = Append(calls, "entry")
        /\ IF accepted
           THEN /\ exchPos' = [exchPos EXCEPT ![s] = @ \cup {loc.position_side}]
                /\ next_order_id' = next_order_id + 1
                /\ Continue("stop_loss", [loc EXCEPT !.entry_order = next_order_id])
           ELSE /\ Continue("stop_loss", loc)
                /\ UNCHANGED <<exchPos, next_order_id>>
    /\ UNCHANGED <<traderVars, exchOrders, exchBalance, cp, opened>>

\* execute_trade, lines 332-350: the MARKET entry order.
ET_Entry ==
    /\ pc = "entry"
    /\ \E accepted \in BOOLEAN :
        LET s == loc.symbol IN
        /\ accepted => CanAccept
        /\ calls' = Append(calls, "entry")
        /\ IF accepted
           THEN /\ exchPos' = [exchPos EXCEPT ![s] = @ \cup {loc.position_side}]
                /\ next_order_id' = next_order_id + 1
                /\ Continue("stop_loss", [loc EXCEPT !.entry_order = next_order_id])
           ELSE /\ Return(ETFail("entry_failed", 0), loc)
                /\ UNCHANGED <<exchPos, next_order_id>>
    /\ UNCHANGED <<traderVars, exchOrders, exchBalance, cp, opened>>

\* A Trader that would treat a failed stop-loss order as it treats a failed
\* take-profit order: note it and go on.
ET_StopLoss_Tolerated ==
    /\ pc = "stop_loss"
    /\ \E accepted \in BOOLEAN :
        /\ accepted => CanAccept
        /\ calls' = Append(calls, "stop_loss")
        /\ IF accepted
           THEN /\ exchOrders' = exchOrders \cup
                      {RestingOrder(next_order_id, loc.symbol, "STOP_MARKET",
                                    loc.position_side)}
                /\ next_order_id' = next_order_id + 1
                /\ Continue("take_profit", [loc EXCEPT !.stop_loss_order = next_order_id])
           ELSE /\ Continue("take_profit", loc)
                /\ UNCHANGED <<exchOrders, next_order_id>>
    /\ UNCHANGED <<traderVars, exchPos, exchBalance, cp, opened>>

\* A Trader that would return the stop-loss failure without calling
\* close_position.
ET_StopLoss_NoClose ==
    /\ pc = "stop_loss"
    /\ \E accepted \in BOOLEAN :
        /\ accepted => CanAccept
        /\ calls' = Append(calls, "stop_loss")
        /\ IF accepted
           THEN /\ exchOrders' = exchOrders \cup
                      {RestingOrder(next_order_id, loc.symbol, "STOP_MARKET",
                                    loc.position_side)}
                /\ next_order_id' = next_order_id + 1
                /\ Continue("take_profit", [loc EXCEPT !.stop_loss_order = next_order_id])
           ELSE /\ Return(ETFail("stop_loss_failed", loc.entry_order), loc)
                /\ UNCHANGED <<exchOrders, next_order_id>>
    /\ UNCHANGED <<traderVars, exchPos, exchBalance, cp, opened>>

\* execute_trade, lines 352-362, with _place_stop_loss_order: the
\* STOP_MARKET close-position order; when it fails close_position is called.
ET_StopLoss ==
    /\ pc = "stop_loss"
    /\ \E accepted \in BOOLEAN :
        LET s == loc.symbol IN
        /\ accepted => CanAccept
        /\ calls' = Append(calls, "stop_loss")
        /\ IF accepted
           THEN /\ exchOrders' = exchOrders \cup
                      {RestingOrder(next_order_id, s, "STOP_MARKET", loc.position_side)}
                /\ next_order_id' = next_order_id + 1
                /\ Continue("take_profit", [loc EXCEPT !.stop_loss_order = next_order_id])
                /\ UNCHANGED cp
           ELSE /\ Continue("compensate", loc)
                /\ cp' = [NoFrame EXCEPT !.pc = "query", !.symbol = s,
                                         !.position_side = loc.position_side,
                                         !.caller = "execute_trade"]
                /\ UNCHANGED <<exchOrders, next_order_id>>
    /\ UNCHANGED <<traderVars, exchPos, exchBalance, opened>>

\* A Trader that would return a failed take-profit order as a failure of the
\* trade, without recording the position.
ET_TakeProfit_Strict ==
    /\ pc = "take_profit"
    /\ \E accepted \in BOOLEAN :
        LET s == loc.symbol
            tp_id == IF accepted THEN next_order_id ELSE 0
        IN
        /\ accepted => CanAccept
        /\ calls' = Append(calls, "take_profit")
        /\ IF accepted
           THEN /\ exchOrders' = exchOrders \cup
                      {RestingOrder(next_order_id, s, "TAKE_PROFIT_MARKET", loc.position_side)}
                /\ next_order_id' = next_order_id + 1
                /\ active_positions' = [active_positions EXCEPT ![s] = loc.position_side]
                /\ active_orders' = [active_orders EXCEPT ![s] =
                                       [tracked |-> TRUE,
                                        stop_loss_order_id |-> loc.stop_loss_order,
                                        take_profit_order_id |-> tp_id,
                                        position_side |-> loc.position_side]]
                /\ opened' = [opened EXCEPT ![s] = TRUE]
                /\ Return([op |-> "execute_trade", success |-> TRUE, reason |-> "success",
                           entry |-> loc.entry_order, stop_loss |-> loc.stop_loss_order,
                           take_profit |-> tp_id], loc)
           ELSE /\ UNCHANGED <<exchOrders, next_order_id, active_positions, active_orders,
                               opened>>
                /\ Return([op |-> "execute_trade", success |-> FALSE,
                           reason |-> "take_profit_failed", entry |-> loc.entry_order,
                           stop_loss |-> loc.stop_loss_order, take_profit |-> -1], loc)
    /\ UNCHANGED <<cached_balance, exchPos, exchBalance, cp>>

\* execute_trade, lines 371-419, with _place_take_profit_order and
\* _update_active_position: the TAKE_PROFIT_MARKET order, whose failure is
\* tolerated, then the position and the order ids are recorded.
ET_TakeProfit ==
    /\ pc = "take_profit"
    /\ \E accepted \in BOOLEAN :
        LET s == loc.symbol
            tp_id == IF accepted THEN next_order_id ELSE 0
        IN
        /\ accepted => CanAccept
        /\ calls' = Append(calls, "take_profit")
        /\ IF accepted
           THEN /\ exchOrders' = exchOrders \cup
                      {RestingOrder(next_order_id, s, "TAKE_PROFIT_MARKET", loc.position_side)}
                /\ next_order_id' = next_order_id + 1
           ELSE UNCHANGED <<exchOrders, next_order_id>>
        /\ active_positions' = [active_positions EXCEPT ![s] = loc.position_side]
        /\ active_orders' = [active_orders EXCEPT ![s] =
                               [tracked |-> TRUE, stop_loss_order_id |-> loc.stop_loss_order,
                                take_profit_order_id |-> tp_id,
                                position_side |-> loc.position_side]]
        /\ opened' = [opened EXCEPT ![s] = TRUE]
        /\ Return([op |-> "execute_trade", success |-> TRUE, reason |-> "success",
                   entry |-> loc.entry_order, stop_loss |-> loc.stop_loss_order,
                   take_profit |-> IF accepted THEN tp_id ELSE -1], loc)
    /\ UNCHANGED <<cached_balance, exchPos, exchBalance, cp>>

\* --------------------------------------------------------- close_position
\* What close_position returns to its caller: execute_trade ignores it and
\* returns its own failure (lines 365-369).
CP_Return(ok, frame) ==
    /\ cp' = [frame EXCEPT !.pc = "idle", !.raised = ~ok]
    /\ opened' = [opened EXCEPT ![frame.symbol] = FALSE]
    /\ Return(IF frame.caller = "execute_trade"
              THEN ETFail("stop_loss_failed", loc.entry_order)
              ELSE [op |-> "close_position", success |-> ok,
                    reason |-> IF ok THEN "closed" ELSE "close_failed",
                    entry |-> 0, stop_loss |-> 0, take_profit |-> 0], loc)

\* close_position goes on to its next statement.
CP_Continue(frame) ==
    /\ cp' = frame
    /\ UNCHANGED <<pc, cur, loc, result, opened>>

\* A call of close_position(symbol, position_side) from outside.
CP_Begin(s, side) ==
    /\ pc = "idle"
    /\ cp.pc = "idle"
    /\ cp' = [NoFrame EXCEPT !.pc = "query", !.symbol = s, !.position_side = side,
                             !.caller = "api"]
    /\ calls' = <<>>
    /\ cur' = NoAnalysis
    /\ loc' = [NoLoc EXCEPT !.symbol = s, !.pre_positions = active_positions,
                            !.pre_orders = active_orders]
    /\ result' = NoResult
    /\ pc' = "closing"
    /\ UNCHANGED <<traderVars, exchVars, opened>>

RECURSIVE Matching(_, _)
Matching(rows, side) ==
    IF rows = <<>> THEN <<>>
    ELSE IF side # "ANY" /\ Head(rows) # side THEN Matching(Tail(rows), side)
    ELSE <<Head(rows)>> \o Matching(Tail(rows), side)

\* close_position, line 693: the positions to close; a failing query ends
\* the call in its except branch.
CP_Query ==
    /\ cp.pc = "query"
    /\ \E ok \in BOOLEAN :
        LET todo == Matching(PositionRows(cp.symbol), cp.position_side) IN
        /\ calls' = Append(calls, "get_position")
        /\ IF ok
           THEN CP_Continue([cp EXCEPT !.todo = todo,
                                       !.pc = IF todo = <<>> THEN "cancel_sl" ELSE "close"])
           ELSE CP_Return(FALSE, cp)
    /\ UNCHANGED <<traderVars, exchVars>>

\* close_position, lines 698-720: one MARKET close-position order per
\* matching row; a rejected order ends the call in its except branch.
CP_Close ==
    /\ cp.pc = "close"
    /\ \E accepted \in BOOLEAN :
        LET side == Head(cp.todo)
            rest == Tail(cp.todo)
        IN
        /\ accepted => CanAccept
        /\ calls' = Append(calls, "market_close")
        /\ IF accepted
           THEN /\ exchPos' = [exchPos EXCEPT ![cp.symbol] = @ \ {side}]
                /\ next_order_id' = next_order_id + 1
                /\ CP_Continue([cp EXCEPT !.todo = rest,
                                          !.results = Append(@, next_order_id),
                                          !.pc = IF rest = <<>> THEN "cancel_sl" ELSE "close"])
           ELSE /\ CP_Return(FALSE, cp)
                /\ UNCHANGED <<exchPos, next_order_id>>
    /\ UNCHANGED <<traderVars, exchOrders, exchBalance>>

\* cancel_order removes the order when the exchange still holds it.
CancelOrder(ok, id) == IF ok THEN {o \in exchOrders : o.id # id} ELSE exchOrders

\* close_position, lines 723-736: the tracked stop-loss order is cancelled.
CP_CancelStopLoss ==
    /\ cp.pc = "cancel_sl"
    /\ \E ok \in BOOLEAN :
        LET o == active_orders[cp.symbol]
            due == o.tracked /\ o.stop_loss_order_id # 0
        IN
        /\ due \/ ok
        /\ (due /\ ok) => (\E r \in exchOrders : r.id = o.stop_loss_order_id)
        /\ calls' = IF due THEN Append(calls, "cancel_stop_loss") ELSE calls
        /\ exchOrders' = IF due THEN CancelOrder(ok, o.stop_loss_order_id) ELSE exchOrders
        /\ CP_Continue([cp EXCEPT !.pc = "cancel_tp",
                                  !.cancelled = IF due /\ ok THEN Append(@, "stop_loss") ELSE @])
    /\ UNCHANGED <<traderVars, exchPos, exchBalance, next_order_id>>

\* close_position, lines 738-746: the tracked take-profit order is cancelled.
CP_CancelTakeProfit ==
    /\ cp.pc = "cancel_tp"
    /\ \E ok \in BOOLEAN :
        LET o == active_orders[cp.symbol]
            due == o.tracked /\ o.take_profit_order_id # 0
        IN
        /\ due \/ ok
        /\ (due /\ ok) => (\E r \in exchOrders : r.id = o.take_profit_order_id)
        /\ calls' = IF due THEN Append(calls, "cancel_take_profit") ELSE calls
        /\ exchOrders' = IF due THEN CancelOrder(ok, o.take_profit_order_id) ELSE exchOrders
        /\ CP_Continue([cp EXCEPT !.pc = "finish",
                                  !.cancelled = IF due /\ ok THEN Append(@, "take_profit") ELSE @])
    /\ UNCHANGED <<traderVars, exchPos, exchBalance, next_order_id>>

\* The condition of line 749 under which cancel_all_orders is issued.
CancelAllDue(o) == o.tracked /\ o.stop_loss_order_id = 0 /\ o.take_profit_order_id = 0

\* close_position, lines 748-775: the safety net, then the order record and
\* the cached position are dropped and the call returns.
CP_Finish ==
    /\ cp.pc = "finish"
    /\ \E ok \in BOOLEAN :
        LET s == cp.symbol
            due == CancelAllDue(active_orders[s])
        IN
        /\ due \/ ok
        /\ calls' = IF due THEN Append(calls, "cancel_all_orders") ELSE calls
        /\ exchOrders' = IF due /\ ok THEN {r \in exchOrders : r.symbol # s} ELSE exchOrders
        /\ active_orders' = [active_orders EXCEPT ![s] = Untracked]
        /\ active_positions' = [active_positions EXCEPT ![s] = "ABSENT"]
        /\ CP_Return(TRUE, [cp EXCEPT !.cancelled =
                                 IF due /\ ok THEN Append(@, "all") ELSE @])
    /\ UNCHANGED <<cached_balance, exchPos, exchBalance, next_order_id>>

\* The caller of execute_trade or close_position has read the result, as
\* main's scan callback does after each trade; the Trader is at rest.
Caller_Done ==
    /\ pc = "returned"
    /\ pc' = "idle"
    /\ cur' = NoAnalysis
    /\ loc' = NoLoc
    /\ cp' = NoFrame
    /\ calls' = <<>>
    /\ result' = NoResult
    /\ UNCHANGED <<traderVars, exchVars, opened>>

\* ---------------------------------------------------------- the exchange
\* A resting STOP_MARKET or TAKE_PROFIT_MARKET order, placed with
\* close_position=True, triggers: the exchange closes the position of its
\* side and the order is gone.  The Trader is not told.
Exch_Trigger ==
    /\ \E r \in exchOrders :
        /\ r.position_side \in exchPos[r.symbol]
        /\ exchPos' = [exchPos EXCEPT ![r.symbol] = @ \ {r.position_side}]
        /\ exchOrders' = exchOrders \ {r}
    /\ UNCHANGED <<traderVars, exchBalance, next_order_id, pc, cur, loc, cp, calls, result,
                   opened>>

\* ------------------------------------------------------- specification
ExecuteTrade ==
    \/ ET_DoubleCheck
    \/ ET_Configure
    \/ ET_Balance
    \/ ET_Entry
    \/ ET_StopLoss
    \/ ET_TakeProfit

ClosePosition ==
    \/ CP_Query
    \/ CP_Close
    \/ CP_CancelStopLoss
    \/ CP_CancelTakeProfit
    \/ CP_Finish

Next ==
    \/ \E a \in Analyses : ET_Begin(a) /\ UNCHANGED <<mainVars, sideVars>>
    \/ \E s \in Symbols, side \in Sides \cup {"ANY"} : CP_Begin(s, side) /\ UNCHANGED <<mainVars, sideVars>>
    \/ ExecuteTrade /\ UNCHANGED <<mainVars, sideVars>>
    \/ ClosePosition /\ UNCHANGED <<mainVars, sideVars>>
    \/ Caller_Done /\ UNCHANGED <<mainVars, sideVars>>
    \/ Exch_Trigger /\ UNCHANGED <<mainVars, sideVars>>

Spec == Init /\ [][Next]_vars

\* ------------------------------------------------------------------ main
Environments == {"observe", "testnet", "mainnet"}

\* The analysis results a scan can produce.
ScanAnalyses ==
    [symbol : Symbols, action : {LONG_ACTION, HOLD_ACTION}, confidence : ConfidenceInputs,
     entry_price : {PyNum(100)}, stop_loss : {PyNum(95)}, take_profit : {PyNum(110)},
     leverage : {PyNum(5)}, position_size : {PyNone}]

Batches == UNION {[1..n -> ScanAnalyses] : n \in 0..MaxBatch}

HighConfidence(r) == FGe(r.confidence, AI_CONFIDENCE_THRESHOLD)

\* MarketScanner.get_analysis_summary()['high_confidence_results']
HighConfidenceResults(results) == SelectSeq(results, HighConfidence)

Tradable(r) == HighConfidence(r) /\ r.action # HOLD_ACTION

\* scan_callback: the results it hands to execute_trade.
CallbackSelection(results) ==
    IF trader /\ env # "observe" THEN SelectSeq(results, Tradable) ELSE <<>>

\* run_single_scan: the results it hands to execute_trade.
SingleScanSelection(results) ==
    IF trader THEN HighConfidenceResults(results) ELSE <<>>

\* main: the process starts with the configured environment and scan mode.
InitMain ==
    /\ TraderInit
    /\ ExchangeInit
    /\ ControlInit
    /\ SideIdle
    /\ env \in Environments
    /\ auto_scan \in BOOLEAN
    /\ trader = FALSE
    /\ mpc = "start"
    /\ batch = <<>>
    /\ queue = <<>>

\* A main that would create the Trader in every environment.
Main_CreateTrader_Always ==
    /\ mpc = "start"
    /\ trader' = TRUE
    /\ mpc' = "scan"
    /\ UNCHANGED <<traderVars, exchVars, pc, cur, loc, cp, calls, result, opened, env,
                   auto_scan, batch, queue>>

\* main: a Trader is created outside observation mode, unless its
\* construction raises, and attached to the scanner.
Main_CreateTrader ==
    /\ mpc = "start"
    /\ \E created \in BOOLEAN :
        /\ env = "observe" => ~created
        /\ trader' = (env # "observe" /\ created)
    /\ mpc' = "scan"
    /\ UNCHANGED <<traderVars, exchVars, pc, cur, loc, cp, calls, result, opened, env,
                   auto_scan, batch, queue>>

\* One scan, by run_single_scan or by the auto-scan loop's scan_callback:
\* the analysis results arrive and the ones to trade are selected.
Main_Scan ==
    /\ mpc = "scan"
    /\ \E results \in Batches :
        /\ batch' = results
        /\ queue' = IF auto_scan THEN CallbackSelection(results)
                    ELSE SingleScanSelection(results)
    /\ mpc' = "trade"
    /\ UNCHANGED <<traderVars, exchVars, pc, cur, loc, cp, calls, result, opened, env, trader,
                   auto_scan>>

\* The trade loop of run_single_scan and scan_callback calls execute_trade.
Main_Trade ==
    /\ mpc = "trade"
    /\ queue # <<>>
    /\ ET_Begin(Head(queue))
    /\ queue' = Tail(queue)
    /\ UNCHANGED <<env, trader, auto_scan, mpc, batch>>

\* The trade loop is through: a single scan ends the process, the auto-scan
\* loop waits for its next scan.
Main_ScanDone ==
    /\ mpc = "trade"
    /\ queue = <<>>
    /\ pc = "idle"
    /\ mpc' = IF auto_scan THEN "scan" ELSE "done"
    /\ batch' = <<>>
    /\ UNCHANGED <<traderVars, exchVars, pc, cur, loc, cp, calls, result, opened, env, trader,
                   auto_scan, queue>>

NextMain ==
    \/ Main_CreateTrader /\ UNCHANGED sideVars
    \/ Main_Scan /\ UNCHANGED sideVars
    \/ Main_Trade /\ UNCHANGED sideVars
    \/ Main_ScanDone /\ UNCHANGED sideVars
    \/ ExecuteTrade /\ UNCHANGED <<mainVars, sideVars>>
    \/ ClosePosition /\ UNCHANGED <<mainVars, sideVars>>
    \/ Caller_Done /\ UNCHANGED <<mainVars, sideVars>>
    \/ Exch_Trigger /\ UNCHANGED <<mainVars, sideVars>>

SpecMain == InitMain /\ [][NextMain]_vars

\* ----------------------------------------------------------- properties
\* The running / last top-level call made the exchange call `tag`.
Sent(tag) == \E i \in DOMAIN calls : calls[i] = tag

\* The running / last top-level call made `first` and later `second`.
SentAfter(first, second) ==
    \E i \in DOMAIN calls, j \in DOMAIN calls : i < j /\ calls[i] = first /\ calls[j] = second

OrderSent ==
    Sent("entry") \/ Sent("stop_loss") \/ Sent("take_profit") \/ Sent("market_close")

\* The call `op` has returned and its result is with the caller.
ReturnedFrom(op) == pc = "returned" /\ result.op = op

\* execute_trade is running and the exchange has accepted its entry order.
EntryAccepted == pc \in {"stop_loss", "take_profit", "compensate"}

SignalReasons == {"invalid_symbol", "invalid_symbol_format", "hold"}
PriceReasons ==
    {"missing_prices", "param_type", "price_nonpositive", "long_stop", "long_take",
     "short_stop", "short_take"}
LateReasons == {"unknown_action", "size_invalid", "margin", "risk"}
ValidationReasons == SignalReasons \cup PriceReasons \cup LateReasons

\* C1: once execute_trade has succeeded for a symbol, every later
\* execute_trade for it fails and sends no entry order, until a
\* close_position for the symbol has completed.
C1_DuplicateOpenRefused ==
    loc.was_open =>
        /\ ~Sent("entry")
        /\ ReturnedFrom("execute_trade") => ~result.success

C3_StopLossFailure ==
    (ReturnedFrom("execute_trade") /\ result.reason = "stop_loss_failed") =>
        /\ ~result.success
        /\ result.entry # 0
        /\ cp.caller = "execute_trade"
        /\ SentAfter("stop_loss", "get_position")
        /\ active_positions[loc.symbol] = "ABSENT"
        /\ ~cp.raised => loc.position_side \notin exchPos[loc.symbol]

\* C3 witness: execute_trade has returned the stop-loss failure, its
\* close_position raised, and the position it opened is still open.
C3_PositionLeftOpen ==
    /\ ReturnedFrom("execute_trade")
    /\ result.reason = "stop_loss_failed"
    /\ cp.raised
    /\ loc.position_side \in exchPos[loc.symbol]

\* C3 as stated: when the stop-loss order fails, the position is closed by
\* a MARKET order before execute_trade returns and the symbol is not cached.
C3_CompensatingClose ==
    (ReturnedFrom("execute_trade") /\ result.reason = "stop_loss_failed") =>
        /\ Sent("market_close")
        /\ cp.results # <<>>
        /\ loc.position_side \notin exchPos[loc.symbol]
        /\ active_positions[loc.symbol] = "ABSENT"

\* C4: execute_trade sends an entry order only after a position query that
\* completed and reported no position; when the query fails no entry order
\* is sent.
C4_EntryAfterSuccessfulQuery == Sent("entry") => loc.query_ok

\* C5: a symbol that is in the active-position cache when execute_trade is
\* called blocks the open, whatever the exchange reports: the call fails and
\* sends no entry order.
C5_CacheAloneBlocks ==
    loc.was_cached =>
        /\ ~Sent("entry")
        /\ ReturnedFrom("execute_trade") => ~result.success

\* C6: an accepted entry order belongs to an analysis whose prices are
\* positive and ordered for its side: stop < entry < take for a long,
\* take < entry < stop for a short.
C6_PriceOrdering ==
    EntryAccepted =>
        /\ FGt(loc.entry_price, R(0))
        /\ FGt(loc.stop_loss, R(0))
        /\ FGt(loc.take_profit, R(0))
        /\ cur.action = LONG_ACTION =>
               FLt(loc.stop_loss, loc.entry_price) /\ FLt(loc.entry_price, loc.take_profit)
        /\ cur.action = SHORT_ACTION =>
               FLt(loc.take_profit, loc.entry_price) /\ FLt(loc.entry_price, loc.stop_loss)

\* C7 (as the code has it): an execute_trade refused by validation has
\* sent no order and leaves the tracked order ids alone; refused for its
\* symbol, action or confidence it has made no exchange call and leaves the
\* cache alone; refused for its prices it has not set leverage or margin
\* type and has at most dropped a stale cache entry; refused for its
\* action, size, margin or risk it has set leverage and margin type.
C7_RefusedBeforeOrders ==
    (ReturnedFrom("execute_trade") /\ result.reason \in ValidationReasons) =>
        /\ ~result.success
        /\ ~OrderSent
        /\ active_orders = loc.pre_orders
        /\ \A s \in Symbols : active_positions[s] \in {loc.pre_positions[s], "ABSENT"}
        /\ result.reason \in SignalReasons =>
               calls = <<>> /\ active_positions = loc.pre_positions
        /\ result.reason \in PriceReasons =>
               ~Sent("set_leverage") /\ ~Sent("set_margin_type")
        /\ result.reason \in LateReasons =>
               Sent("set_leverage") /\ Sent("set_margin_type")

\* C7 witness: execute_trade has refused a trade for its risk, after
\* setting leverage and margin type.
C7_RefusedAfterLeverage ==
    /\ ReturnedFrom("execute_trade")
    /\ result.reason = "risk"
    /\ Sent("set_leverage")
    /\ Sent("set_margin_type")

\* C7 as stated: an execute_trade refused by validation has made no
\* state-changing exchange call and leaves the cache and the tracked order
\* ids unchanged.
C7_NoSideEffect ==
    (ReturnedFrom("execute_trade") /\ result.reason \in ValidationReasons) =>
        /\ ~Sent("set_leverage")
        /\ ~Sent("set_margin_type")
        /\ ~OrderSent
        /\ active_positions = loc.pre_positions
        /\ active_orders = loc.pre_orders

\* C8: an accepted entry order keeps the three risk bounds against the
\* balance the exchange reports: margin <= 95% of it, potential loss <=
\* MAX_LOSS_PER_TRADE of it, notional <= MAX_POSITION_SIZE of it.
C8_RiskBounds ==
    EntryAccepted =>
        LET B == R(exchBalance)
            q == loc.position_size
            E == loc.entry_price
        IN  /\ FLe(MarginRequired(q, E, loc.leverage), FMul(B, MARGIN_BUFFER))
            /\ FLe(FMul(q, FAbs(FSub(E, loc.stop_loss))), FMul(MAX_LOSS_PER_TRADE, B))
            /\ FLe(FMul(q, E), FMul(MAX_POSITION_SIZE, B))

\* C9: in observation mode no scan makes an order-placing or
\* leverage/margin-setting exchange call (execute_trade is never called);
\* in any mode an entry order is placed only for an analysis whose
\* confidence reaches AI_CONFIDENCE_THRESHOLD and whose action is not to
\* stay out.
C9_ObserveNeverTrades ==
    /\ env = "observe" =>
        /\ pc = "idle"
        /\ calls = <<>>
        /\ exchOrders = {}
        /\ next_order_id = 1
    /\ (pc = "entry" \/ EntryAccepted) =>
        /\ FGe(cur.confidence, AI_CONFIDENCE_THRESHOLD)
        /\ cur.action # HOLD_ACTION

\* C9 witness: a single scan in observation mode has produced a result
\* that would be traded in another mode.
C9_ObservedTradable ==
    /\ env = "observe"
    /\ ~auto_scan
    /\ mpc = "trade"
    /\ \E i \in DOMAIN batch : Tradable(batch[i])

\* C10: a close_position that returns success has issued cancel_all_orders
\* whenever a tracked order id was missing, also when nothing was tracked
\* for the symbol, and leaves the symbol in neither the cache nor the
\* tracked-order map.
C10_CloseCleansUp ==
    (ReturnedFrom("close_position") /\ result.success) =>
        LET o == loc.pre_orders[cp.symbol] IN
        /\ (~o.tracked \/ o.stop_loss_order_id = 0 \/ o.take_profit_order_id = 0)
               => Sent("cancel_all_orders")
        /\ active_positions[cp.symbol] = "ABSENT"
        /\ ~active_orders[cp.symbol].tracked

\* ------------------------------------------------- exchange adapter: HTTP
RECV_WINDOW == 5000

PInt(n) == [t |-> "int", v |-> n]
PText(x) == [t |-> "str", v |-> x]
Param(k, v) == [k |-> k, v |-> v]

\* str(value)
ValueStr(v) == IF v.t = "int" THEN ToString(v.v) ELSE v.v

\* The parameter names the adapter uses, in the order sorted() gives them.
KeyOrder == <<"leverage", "limit", "recvWindow", "side", "symbol", "timestamp">>

HasKey(params, key) == \E i \in DOMAIN params : params[i].k = key

\* params[key] = value on a dict that keeps insertion order
SetItem(params, key, value) ==
    IF HasKey(params, key)
    THEN [i \in DOMAIN params |-> IF params[i].k = key THEN Param(key, value) ELSE params[i]]
    ELSE Append(params, Param(key, value))

RECURSIVE SortedFrom(_, _)
\* the items of params in the order of sorted(params.keys()), from rank i on
SortedFrom(params, i) ==
    IF i > Len(KeyOrder) THEN <<>>
    ELSE LET here == SelectSeq(params, LAMBDA x : x.k = KeyOrder[i])
         IN here \o SortedFrom(params, i + 1)

RECURSIVE JoinQuery(_)
\* "&".join(f"{key}={value_str}" for the items in the given order)
JoinQuery(items) ==
    IF items = <<>> THEN ""
    ELSE LET first == items[1].k \o "=" \o ValueStr(items[1].v)
         IN IF Len(items) = 1 THEN first ELSE first \o "&" \o JoinQuery(Tail(items))

\* hmac.new(secret, query_string, sha256).hexdigest(): a function of the string signed
Sign(text) == "hmac(" \o text \o ")"

\* The query string a session builds itself from a params dict: the items in
\* the dict's own order.
SessionQuery(params) == JoinQuery(params)

\* The parameter dicts the adapter's callers pass to _request.
ParamInputs ==
    { <<>>,
      <<Param("symbol", PText("BTCUSDT")), Param("leverage", PText("5"))>>,
      <<Param("symbol", PText("BTCUSDT")), Param("side", PText("BUY"))>>,
      <<Param("symbol", PText("BTCUSDT")), Param("limit", PInt(2))>> }

\* int(time.time() * 1000) + self.time_offset
Timestamps == {1700, 1701, 1702}

\* The HTTP statuses a response carries; NO_RESPONSE is a timeout or a network error.
NO_RESPONSE == 0
HttpStatuses == {200, 400, 401, 403, 500}

\* _request up to its HTTP request: a signed call stamps and signs the
\* parameters and sends the string it signed, an unsigned call leaves the
\* query string to the session.
Request_Begin(signed, params, now) ==
    /\ rpc = "idle"
    /\ LET stamped == SetItem(params, "timestamp", PInt(now))
           windowed == IF HasKey(stamped, "recvWindow") THEN stamped
                       ELSE SetItem(stamped, "recvWindow", PInt(RECV_WINDOW))
           canonical == JoinQuery(SortedFrom(windowed, 1))
       IN IF signed
          THEN /\ query_string' = canonical
               /\ wire_query' = canonical \o "&signature=" \o Sign(canonical)
               /\ req' = [op |-> "request", signed |-> TRUE,
                          params |-> SetItem(windowed, "signature", PText(Sign(canonical)))]
          ELSE /\ query_string' = ""
               /\ wire_query' = SessionQuery(params)
               /\ req' = [op |-> "request", signed |-> FALSE, params |-> params]
    /\ sends' = 1
    /\ rpc' = "sent"
    /\ reply' = NoReply

\* _request from the response on. The status check and the JSON parsing are
\* in the unsigned branch; the signed branch reads the text and falls off the
\* end of the function.
Request_Response(status, parses) ==
    /\ rpc = "sent"
    /\ req.op = "request"
    /\ IF status = NO_RESPONSE
       THEN /\ rpc' = "raised"
            /\ reply' = [kind |-> "network_error", status |-> status]
       ELSE IF req.signed
       THEN /\ rpc' = "returned"
            /\ reply' = [kind |-> "None", status |-> status]
       ELSE IF status # 200
       THEN /\ rpc' = "raised"
            /\ reply' = [kind |-> "api_error", status |-> status]
       ELSE IF parses
       THEN /\ rpc' = "returned"
            /\ reply' = [kind |-> "body", status |-> status]
       ELSE /\ rpc' = "raised"
            /\ reply' = [kind |-> "parse_error", status |-> status]
    /\ UNCHANGED <<req, query_string, wire_query, sends>>

\* _validate_api_with_account_info up to its first HTTP request: it signs the
\* sorted parameters and hands the dict (timestamp, recvWindow, signature in
\* that order) to session.get.
Validate_Begin(now) ==
    /\ rpc = "idle"
    /\ LET params == <<Param("timestamp", PInt(now)), Param("recvWindow", PInt(RECV_WINDOW))>>
           canonical == JoinQuery(SortedFrom(params, 1))
           signedParams == SetItem(params, "signature", PText(Sign(canonical)))
       IN /\ query_string' = canonical
          /\ wire_query' = SessionQuery(signedParams)
          /\ req' = [op |-> "validate", signed |-> TRUE, params |-> signedParams]
    /\ sends' = 1
    /\ rpc' = "sent"
    /\ reply' = NoReply

\* The validation tries /fapi/v2/account and, unless that answers 200,
\* /fapi/v1/account with the same parameters; it raises nothing.
Validate_Response(status) ==
    /\ rpc = "sent"
    /\ req.op = "validate"
    /\ IF status = 200 \/ sends = 2
       THEN /\ rpc' = "returned"
            /\ reply' = [kind |-> "None", status |-> status]
            /\ UNCHANGED sends
       ELSE /\ sends' = 2
            /\ UNCHANGED <<rpc, reply>>
    /\ UNCHANGED <<req, query_string, wire_query>>

\* The caller has taken the result or the exception.
Request_Done ==
    /\ rpc \in {"returned", "raised"}
    /\ rpc' = "idle"
    /\ req' = NoRequest
    /\ query_string' = ""
    /\ wire_query' = ""
    /\ sends' = 0
    /\ reply' = NoReply

NextRequest ==
    \/ \E signed \in BOOLEAN, params \in ParamInputs, now \in Timestamps :
          Request_Begin(signed, params, now) /\ UNCHANGED restRequest
    \/ \E status \in HttpStatuses \cup {NO_RESPONSE}, parses \in BOOLEAN :
          Request_Response(status, parses) /\ UNCHANGED restRequest
    \/ \E now \in Timestamps : Validate_Begin(now) /\ UNCHANGED restRequest
    \/ \E status \in HttpStatuses \cup {NO_RESPONSE} : Validate_Response(status) /\ UNCHANGED restRequest
    \/ Request_Done /\ UNCHANGED restRequest

InitRequest == CoreIdle /\ SideIdle

SpecRequest == InitRequest /\ [][NextRequest]_vars

\* C11: every adapter request, signed or unsigned, that receives a non-200
\* response raises an error carrying the server's status and never returns
\* normally; a 200 returns the parsed body; the adapter sends one HTTP
\* request per call.
C11_Non200Raises ==
    (req.op = "request" /\ rpc \in {"returned", "raised"} /\ reply.status # NO_RESPONSE)
        => /\ reply.status # 200 => (rpc = "raised" /\ reply.kind = "api_error")
           /\ rpc = "returned" => (reply.status = 200 /\ reply.kind = "body")
           /\ sends = 1

\* C12: for every signed request, the key validation made on construction
\* included, the query string on the wire minus its trailing signature is
\* the canonical string the signature was computed over.
C12_WireIsSignedString ==
    (rpc # "idle" /\ req.signed)
        => wire_query = query_string \o "&signature=" \o Sign(query_string)

\* ------------------------------------------------- scanner: one scan
MaxScanSymbols == 4
MAX_CONCURRENT_ANALYSIS == 3

NewTask == [st |-> "pending", out |-> "none"]

\* Analyses between their start and their return.
InProgress == {i \in DOMAIN tasks : tasks[i].st \in {"klines", "ai"}}

\* The indices, in order, of the symbols whose analysis returned a result.
NonNull == SelectSeq([i \in DOMAIN tasks |-> i], LAMBDA i : tasks[i].out = "result")

\* scan_and_analyze: the symbols are selected and their analyses created;
\* more than one symbol is analysed concurrently.
Analyze_Begin(n) ==
    /\ apc = "idle"
    /\ apc' = "analysing"
    /\ concurrent' = (n > 1)
    /\ tasks' = [i \in 1..n |-> NewTask]
    /\ semaphore' = MAX_CONCURRENT_ANALYSIS
    /\ analysis_results' = <<>>
    /\ peak' = 0

\* An analysis that would start without waiting for a slot.
Task_Acquire_Unbounded(i) ==
    /\ apc = "analysing"
    /\ i \in DOMAIN tasks
    /\ tasks[i].st = "pending"
    /\ ~concurrent => \A j \in 1..(i - 1) : tasks[j].st = "done"
    /\ semaphore' = semaphore - 1
    /\ tasks' = [tasks EXCEPT ![i].st = "klines"]
    /\ peak' = IF Cardinality(InProgress) + 1 > peak THEN Cardinality(InProgress) + 1 ELSE peak
    /\ UNCHANGED <<apc, concurrent, analysis_results>>

\* analyze_with_semaphore enters the semaphore (the sequential loop reaches
\* the symbol) and analyze_symbol asks for the klines.
Task_Acquire(i) ==
    /\ apc = "analysing"
    /\ i \in DOMAIN tasks
    /\ tasks[i].st = "pending"
    /\ IF concurrent THEN semaphore > 0
       ELSE \A j \in 1..(i - 1) : tasks[j].st = "done"
    /\ semaphore' = IF concurrent THEN semaphore - 1 ELSE semaphore
    /\ tasks' = [tasks EXCEPT ![i].st = "klines"]
    /\ peak' = IF Cardinality(InProgress) + 1 > peak THEN Cardinality(InProgress) + 1 ELSE peak
    /\ UNCHANGED <<apc, concurrent, analysis_results>>

\* The analysis of symbol i returns `out`: the slot is released, and the
\* sequential loop appends a result at once.
TaskReturns(i, out) ==
    /\ tasks' = [tasks EXCEPT ![i] = [st |-> "done", out |-> out]]
    /\ semaphore' = IF concurrent THEN semaphore + 1 ELSE semaphore
    /\ analysis_results' = IF ~concurrent /\ out = "result" THEN Append(analysis_results, i)
                           ELSE analysis_results

\* analyze_symbol from the klines to the call of the analyzer: no klines, no
\* indicators or an exception end it with None.
Task_Klines(i, outcome) ==
    /\ apc = "analysing"
    /\ i \in DOMAIN tasks
    /\ tasks[i].st = "klines"
    /\ IF outcome = "ok"
       THEN /\ tasks' = [tasks EXCEPT ![i].st = "ai"]
            /\ UNCHANGED <<semaphore, analysis_results>>
       ELSE TaskReturns(i, IF outcome = "raise" THEN "raised" ELSE "null")
    /\ UNCHANGED <<apc, concurrent, peak>>

\* analyze_symbol from the analyzer's answer on: a result, None, or an
\* exception that is caught and turned into None.
Task_Analysis(i, outcome) ==
    /\ apc = "analysing"
    /\ i \in DOMAIN tasks
    /\ tasks[i].st = "ai"
    /\ TaskReturns(i, outcome)
    /\ UNCHANGED <<apc, concurrent, peak>>

\* Every analysis has returned: gather hands back the results in the order
\* of the symbols and the truthy ones are appended.
Analyze_Collect ==
    /\ apc = "analysing"
    /\ \A i \in DOMAIN tasks : tasks[i].st = "done"
    /\ analysis_results' = IF concurrent THEN NonNull ELSE analysis_results
    /\ apc' = "done"
    /\ UNCHANGED <<concurrent, tasks, semaphore, peak>>

\* scan_and_analyze has returned analysis_results to its caller.
Analyze_Return ==
    /\ apc = "done"
    /\ apc' = "idle"
    /\ concurrent' = FALSE
    /\ tasks' = <<>>
    /\ semaphore' = 0
    /\ analysis_results' = <<>>
    /\ peak' = 0

NextAnalyze ==
    \/ \E n \in 1..MaxScanSymbols : Analyze_Begin(n) /\ UNCHANGED restAnalyze
    \/ \E i \in 1..MaxScanSymbols : Task_Acquire(i) /\ UNCHANGED restAnalyze
    \/ \E i \in 1..MaxScanSymbols, outcome \in {"ok", "empty", "raise"} :
          Task_Klines(i, outcome) /\ UNCHANGED restAnalyze
    \/ \E i \in 1..MaxScanSymbols, outcome \in {"result", "null", "raised"} :
          Task_Analysis(i, outcome) /\ UNCHANGED restAnalyze
    \/ Analyze_Collect /\ UNCHANGED restAnalyze
    \/ Analyze_Return /\ UNCHANGED restAnalyze

InitAnalyze == CoreIdle /\ SideIdle

SpecAnalyze == InitAnalyze /\ [][NextAnalyze]_vars

\* C13: during a scan never more than MAX_CONCURRENT_ANALYSIS analyses are
\* in progress, and when the scan is through every selected symbol has been
\* analysed, whatever the others did, and the batch is exactly the non-null
\* results.
C13_BoundedAndIsolated ==
    /\ Cardinality(InProgress) <= MAX_CONCURRENT_ANALYSIS
    /\ apc = "done" =>
        /\ \A i \in DOMAIN tasks : tasks[i].st = "done" /\ tasks[i].out # "none"
        /\ analysis_results = NonNull

\* A concurrent scan is through in which all slots were in use at once, one
\* analysis raised, one returned None and a later one returned a result.
C13_FailureBesideResult ==
    /\ apc = "done"
    /\ concurrent
    /\ peak = MAX_CONCURRENT_ANALYSIS
    /\ \E i, j, k \in DOMAIN tasks :
        /\ i < k /\ j < k
        /\ tasks[i].out = "raised"
        /\ tasks[j].out = "null"
        /\ tasks[k].out = "result"

\* ------------------------------------------------- scanner: auto-scan loop
MaxLoopSymbols == 3
MaxLoopTrades == 2
SLICE_SECONDS == 10

\* total_seconds() of time_until_next_kline
WaitInputs == {0, 5, 10, 15, 25, 30}

Min(a, b) == IF a < b THEN a ELSE b

\* The awaits of the loop task: the places a cancellation can reach it.
LoopAwaits == {"scan", "analyse", "trade", "wait", "sleep60", "retry"}

\* The except clauses around each await, innermost first, as the exception
\* class each one catches and what it does with it.
Handlers(at) ==
    CASE at = "analyse" -> <<[catches |-> "Exception", then |-> "return_none"],
                             [catches |-> "Exception", then |-> "log"],
                             [catches |-> "CancelledError", then |-> "raise"],
                             [catches |-> "CancelledError", then |-> "end"]>>
      [] at = "trade" -> <<[catches |-> "Exception", then |-> "fail_result"],
                           [catches |-> "Exception", then |-> "log"],
                           [catches |-> "CancelledError", then |-> "raise"],
                           [catches |-> "CancelledError", then |-> "end"]>>
      [] OTHER -> <<[catches |-> "CancelledError", then |-> "raise"],
                    [catches |-> "CancelledError", then |-> "end"]>>

\* Classes derived from Exception that the calls of the Trader raise.
ErrorClasses == {"ValueError", "TypeError", "KeyError", "TimeoutError"}

\* An exception hierarchy in which CancelledError derives from Exception.
Catches_Subclass(handler, exc) ==
    \/ handler.catches = exc
    \/ handler.catches \in {"Exception", "BaseException"}

\* asyncio.CancelledError derives from BaseException, not from Exception;
\* the error classes derive from Exception.
Catches(handler, exc) ==
    \/ handler.catches = exc
    \/ handler.catches = "BaseException"
    \/ (handler.catches = "Exception" /\ exc \in ErrorClasses)

RECURSIVE Unwind(_, _)
\* What the first handler that catches `exc` and does not re-raise it does.
Unwind(handlers, exc) ==
    IF handlers = <<>> THEN "propagate"
    ELSE IF Catches(Head(handlers), exc) /\ Head(handlers).then # "raise" THEN Head(handlers).then
    ELSE Unwind(Tail(handlers), exc)

\* What the loop has done since its last scan ended once it is at `at`: the
\* wait for the next kline (which returns at once when there is nothing to wait
\* for), the 60 s sleep, the 30 s sleep, or nothing while the callback runs.
Preceding(at) ==
    IF at \in {"wait", "sleep60", "retry"} THEN at
    ELSE IF at = "iterate" /\ auto_scan_task.pc \in {"scan", "analyse", "trade", "callback_failed"}
    THEN "wait"
    ELSE IF at \in {"analyse", "trade", "callback_failed"} THEN "nothing"
    ELSE auto_scan_task.before_scan

\* How the batch in progress has ended once the loop is at `at`.
Outcome(at) ==
    IF at = "callback_failed" THEN "callback_failed"
    ELSE IF auto_scan_task.pc = "scan" THEN (IF at = "retry" THEN "scan_failed" ELSE "ok")
    ELSE auto_scan_task.batch

\* The loop goes to its next await `at`; it is late when stop_auto_scan has
\* already cancelled the task.
LoopGoes(at, locals) ==
    /\ auto_scan_task' = [auto_scan_task EXCEPT !.pc = at,
                                                !.before_scan = Preceding(at),
                                                !.batch = Outcome(at)]
    /\ lp' = locals
    /\ late_work' = (late_work \/ (at \in {"scan", "analyse", "trade"} /\ stop_pc # "idle"))

\* The callback is through (or raised): the loop waits for the next kline in
\* slices, or sleeps 60 s when it does not align.
AfterCallback(wait_seconds) ==
    IF ~auto_scan_task.align THEN LoopGoes("sleep60", NoLoop)
    ELSE IF wait_seconds > 0 /\ is_scanning
    THEN LoopGoes("wait", [NoLoop EXCEPT !.remaining = wait_seconds,
                                         !.wait = Min(SLICE_SECONDS, wait_seconds)])
    ELSE LoopGoes("iterate", NoLoop)

\* What the callback does next: the next symbol's analysis, then the trades.
CallbackGoes(symbols, trades, wait_seconds) ==
    IF symbols > 0 THEN LoopGoes("analyse", [NoLoop EXCEPT !.symbols = symbols, !.trades = trades])
    ELSE IF trades > 0 THEN LoopGoes("trade", [NoLoop EXCEPT !.trades = trades])
    ELSE AfterCallback(wait_seconds)

\* start_auto_scan, called while no stop_auto_scan is awaiting the loop; the
\* calls that run during that await are the subject of SpecRestart.
StartAutoScan(align) ==
    /\ ~is_scanning
    /\ stop_pc # "awaiting"
    /\ is_scanning' = TRUE
    /\ auto_scan_task' = [NoTask EXCEPT !.pc = "created", !.align = align]
    /\ lp' = NoLoop
    /\ stop_pc' = "idle"
    /\ late_work' = FALSE

\* _auto_scan_loop at `while self._is_scanning`: the next scan begins, or the
\* loop leaves through its finally clause. A task cancelled before its first
\* step never runs.
Loop_Iterate ==
    /\ auto_scan_task.pc \in {"created", "iterate"}
    /\ IF auto_scan_task.must_cancel
       THEN /\ auto_scan_task' = [auto_scan_task EXCEPT !.pc = "ended", !.must_cancel = FALSE,
                                                       !.cancelled_at = auto_scan_task.pc]
            /\ is_scanning' = (auto_scan_task.pc = "created" /\ is_scanning)
            /\ UNCHANGED <<lp, late_work>>
       ELSE IF is_scanning
       THEN LoopGoes("scan", NoLoop) /\ UNCHANGED is_scanning
       ELSE /\ auto_scan_task' = [auto_scan_task EXCEPT !.pc = "ended"]
            /\ is_scanning' = FALSE
            /\ UNCHANGED <<lp, late_work>>
    /\ UNCHANGED stop_pc

\* A loop without the handler of line 900: a failure of scan_symbols ends the
\* loop task through its finally clause.
Loop_Scanned_GivesUp(ok, symbols, trades, wait_seconds) ==
    /\ auto_scan_task.pc = "scan"
    /\ ~auto_scan_task.must_cancel
    /\ IF ok THEN CallbackGoes(symbols, trades, wait_seconds) /\ UNCHANGED is_scanning
       ELSE /\ auto_scan_task' = [auto_scan_task EXCEPT !.pc = "ended", !.batch = "scan_failed"]
            /\ is_scanning' = FALSE
            /\ UNCHANGED <<lp, late_work>>
    /\ UNCHANGED stop_pc

\* scan_symbols returns the symbols and the callback starts on them, or it
\* raises and the loop sleeps 30 s.
Loop_Scanned(ok, symbols, trades, wait_seconds) ==
    /\ auto_scan_task.pc = "scan"
    /\ ~auto_scan_task.must_cancel
    /\ IF ok THEN CallbackGoes(symbols, trades, wait_seconds)
       ELSE LoopGoes("retry", NoLoop)
    /\ UNCHANGED <<is_scanning, stop_pc>>

\* analyze_symbol returns for one symbol.
Loop_Analysed(wait_seconds) ==
    /\ auto_scan_task.pc = "analyse"
    /\ ~auto_scan_task.must_cancel
    /\ CallbackGoes(lp.symbols - 1, lp.trades, wait_seconds)
    /\ UNCHANGED <<is_scanning, stop_pc>>

\* execute_trade returns for one result.
Loop_Traded(wait_seconds) ==
    /\ auto_scan_task.pc = "trade"
    /\ ~auto_scan_task.must_cancel
    /\ CallbackGoes(0, lp.trades - 1, wait_seconds)
    /\ UNCHANGED <<is_scanning, stop_pc>>

\* The callback raises an Exception outside analyze_symbol and execute_trade:
\* it unwinds to the handler around the callback.
Loop_CallbackRaised ==
    /\ auto_scan_task.pc \in {"analyse", "trade"}
    /\ ~auto_scan_task.must_cancel
    /\ Unwind(Tail(Handlers(auto_scan_task.pc)), "Exception") = "log"
    /\ LoopGoes("callback_failed", NoLoop)
    /\ UNCHANGED <<is_scanning, stop_pc>>

\* The handler around the callback has logged the failure; the loop is past
\* the callback. There is no await in between.
Loop_CallbackLogged(wait_seconds) ==
    /\ auto_scan_task.pc = "callback_failed"
    /\ AfterCallback(wait_seconds)
    /\ UNCHANGED <<is_scanning, stop_pc>>

\* _wait_for_next_kline: one slice of the wait is over.
Loop_SliceEnd ==
    /\ auto_scan_task.pc = "wait"
    /\ ~auto_scan_task.must_cancel
    /\ LET remaining == lp.remaining - lp.wait
       IN IF remaining > 0 /\ is_scanning
          THEN LoopGoes("wait", [lp EXCEPT !.remaining = remaining,
                                           !.wait = Min(SLICE_SECONDS, remaining)])
          ELSE LoopGoes("iterate", NoLoop)
    /\ UNCHANGED <<is_scanning, stop_pc>>

\* asyncio.sleep(60) or asyncio.sleep(30) is over.
Loop_Slept ==
    /\ auto_scan_task.pc \in {"sleep60", "retry"}
    /\ ~auto_scan_task.must_cancel
    /\ LoopGoes("iterate", NoLoop)
    /\ UNCHANGED <<is_scanning, stop_pc>>

\* The cancellation reaches the loop task at its await: CancelledError is
\* raised there and unwinds to the loop's outer handler, whose finally clause
\* clears the flag.
Loop_Cancelled ==
    /\ auto_scan_task.pc \in LoopAwaits
    /\ auto_scan_task.must_cancel
    /\ LET does == Unwind(Handlers(auto_scan_task.pc), "CancelledError")
       IN IF does \in {"end", "propagate"}
          THEN /\ auto_scan_task' = [auto_scan_task EXCEPT !.pc = "ended", !.must_cancel = FALSE,
                                                          !.cancelled_at = auto_scan_task.pc]
               /\ is_scanning' = FALSE
               /\ lp' = NoLoop
               /\ UNCHANGED late_work
          ELSE /\ auto_scan_task' = [auto_scan_task EXCEPT
                                        !.pc = IF lp.symbols > 1 THEN "analyse"
                                               ELSE IF lp.symbols + lp.trades > 1 THEN "trade"
                                               ELSE "iterate",
                                        !.must_cancel = FALSE,
                                        !.cancelled_at = auto_scan_task.pc]
               /\ lp' = IF auto_scan_task.pc = "analyse"
                        THEN [lp EXCEPT !.symbols = lp.symbols - 1]
                        ELSE [lp EXCEPT !.trades = lp.trades - 1]
               /\ late_work' = (late_work \/ lp.symbols + lp.trades > 1)
               /\ UNCHANGED is_scanning
    /\ UNCHANGED stop_pc

\* stop_auto_scan up to its await of the loop task: it returns at once when
\* no scan is running, else it clears the flag and cancels the task.
StopAutoScan ==
    /\ stop_pc # "awaiting"
    /\ IF ~is_scanning
       THEN /\ stop_pc' = "returned"
            /\ UNCHANGED <<is_scanning, auto_scan_task>>
       ELSE /\ is_scanning' = FALSE
            /\ IF auto_scan_task.pc = "none"
               THEN /\ stop_pc' = "returned"
                    /\ UNCHANGED auto_scan_task
               ELSE /\ stop_pc' = "awaiting"
                    /\ auto_scan_task' = [auto_scan_task EXCEPT !.must_cancel = TRUE]
    /\ UNCHANGED <<lp, late_work>>

\* stop_auto_scan from the end of the loop task on.
Stop_Return ==
    /\ stop_pc = "awaiting"
    /\ auto_scan_task.pc = "ended"
    /\ stop_pc' = "returned"
    /\ auto_scan_task' = [auto_scan_task EXCEPT !.pc = "none"]
    /\ UNCHANGED <<is_scanning, lp, late_work>>

NextAuto ==
    \/ \E align \in BOOLEAN : StartAutoScan(align) /\ UNCHANGED restAuto
    \/ Loop_Iterate /\ UNCHANGED restAuto
    \/ \E ok \in BOOLEAN, symbols \in 0..MaxLoopSymbols, trades \in 0..MaxLoopTrades,
          wait_seconds \in WaitInputs :
          Loop_Scanned(ok, symbols, trades, wait_seconds)
              /\ UNCHANGED restAuto
    \/ \E wait_seconds \in WaitInputs :
          Loop_Analysed(wait_seconds) /\ UNCHANGED restAuto
    \/ \E wait_seconds \in WaitInputs :
          Loop_Traded(wait_seconds) /\ UNCHANGED restAuto
    \/ Loop_CallbackRaised /\ UNCHANGED restAuto
    \/ \E wait_seconds \in WaitInputs :
          Loop_CallbackLogged(wait_seconds) /\ UNCHANGED restAuto
    \/ Loop_SliceEnd /\ UNCHANGED restAuto
    \/ Loop_Slept /\ UNCHANGED restAuto
    \/ Loop_Cancelled /\ UNCHANGED restAuto
    \/ StopAutoScan /\ UNCHANGED restAuto
    \/ Stop_Return /\ UNCHANGED restAuto

InitAuto == CoreIdle /\ SideIdle

SpecAuto == InitAuto /\ [][NextAuto]_vars

ScanBegins == auto_scan_task.pc = "scan"

\* C28: a scan of an aligned loop, the first one after start_auto_scan
\* included, begins only after the loop has waited for the next kline; a scan
\* of a loop that does not align follows the batch before it after one sleep
\* of 60 s.
C28_WaitPrecedesScan ==
    /\ (ScanBegins /\ auto_scan_task.align) => auto_scan_task.before_scan = "wait"
    /\ (ScanBegins /\ ~auto_scan_task.align /\ auto_scan_task.batch \in {"ok", "callback_failed"})
           => auto_scan_task.before_scan = "sleep60"

\* From the second scan on, a scan that follows a batch whose scan_symbols
\* succeeded comes after the wait for the next kline (aligned) or after the
\* 60 s sleep (not aligned).
WaitFollowsScan ==
    (ScanBegins /\ auto_scan_task.batch \in {"ok", "callback_failed"})
        => auto_scan_task.before_scan = (IF auto_scan_task.align THEN "wait" ELSE "sleep60")

\* The first scan of an aligned loop has begun with no wait before it.
FirstScanUnwaited ==
    /\ ScanBegins
    /\ auto_scan_task.align
    /\ auto_scan_task.batch = "none"
    /\ auto_scan_task.before_scan = "nothing"

\* The last batch of the loop failed, in scan_symbols or in the callback.
BatchFailed == auto_scan_task.batch \in {"scan_failed", "callback_failed"}

\* C29 as stated: after a batch that failed, in scan_symbols or in the
\* callback, the loop neither ends nor clears the flag before stop_auto_scan
\* is called, and its next scan begins after the 30 s sleep.
C29_AlwaysThirtySeconds ==
    /\ (BatchFailed /\ stop_pc = "idle") => (is_scanning /\ auto_scan_task.pc # "ended")
    /\ (ScanBegins /\ BatchFailed) => auto_scan_task.before_scan = "retry"

\* C29: after a batch that failed the loop neither ends nor clears the flag
\* before stop_auto_scan is called; the scan that follows a failed
\* scan_symbols begins after the 30 s sleep, the scan that follows a failed
\* callback after the ordinary wait for the next kline or 60 s sleep.
C29_RetryAfterFailure ==
    /\ (BatchFailed /\ stop_pc = "idle") => (is_scanning /\ auto_scan_task.pc # "ended")
    /\ (ScanBegins /\ auto_scan_task.batch = "scan_failed")
           => auto_scan_task.before_scan = "retry"
    /\ (ScanBegins /\ auto_scan_task.batch = "callback_failed")
           => auto_scan_task.before_scan = (IF auto_scan_task.align THEN "wait" ELSE "sleep60")

\* scan_symbols has failed, the loop has slept 30 s and is at its next scan,
\* with the flag still true.
C29_RetriedAfterFailedScan ==
    /\ ScanBegins
    /\ auto_scan_task.batch = "scan_failed"
    /\ auto_scan_task.before_scan = "retry"
    /\ is_scanning

\* The callback has failed and the loop is at its next scan, with the flag
\* still true.
ScannedAfterFailedCallback ==
    /\ ScanBegins
    /\ auto_scan_task.batch = "callback_failed"
    /\ is_scanning

\* ------------------------------------------------- exchange adapter: klines
MaxLimit == 2500
MAX_PER_REQUEST == 1000

\* The limits asked for: around every quarter of a page.
LimitInputs == {n \in 1..MaxLimit : n % 250 \in {0, 1, 249}}

\* The exchange holds candles 1..HistoryLen of KlineInterval ms each; the
\* newest one is still open at the time of the call.
KlineInterval == 60
HistoryLen == MaxLimit + 10
OpenTime(k) == k * KlineInterval
CloseTime(k) == (k + 1) * KlineInterval - 1
Now == OpenTime(HistoryLen) + 30

\* GET /fapi/v1/klines: the newest `limit` candles opened at or before
\* endTime, oldest first.
KlinesPage(endTime, limit) ==
    LET last == IF endTime \div KlineInterval > HistoryLen THEN HistoryLen
                ELSE endTime \div KlineInterval
        first == IF last - limit + 1 < 1 THEN 1 ELSE last - limit + 1
    IN [i \in 1..(last - first + 1) |-> OpenTime(first + i - 1)]

\* is_closed of the candle opened at t: close_time < current_time
IsClosed(t) == CloseTime(t \div KlineInterval) < Now

\* The end of get_klines: the open candles are dropped unless asked for and
\* the list is cut to limit.
KlinesResult(all, include_current, limit) ==
    LET kept == IF ~include_current /\ all # <<>> THEN SelectSeq(all, IsClosed) ELSE all
    IN SubSeq(kept, 1, Min(limit, Len(kept)))

\* get_klines up to its first request.
Klines_Begin(limit, include_current) ==
    /\ kpc = "idle"
    /\ kpc' = "requesting"
    /\ kl' = [NoKlines EXCEPT !.limit = limit, !.include_current = include_current,
                              !.remaining = limit, !.current_end_time = Now,
                              !.requests = <<[limit |-> Min(limit, MAX_PER_REQUEST),
                                              endTime |-> Now]>>]

\* One page arrives (or the request raises) and get_klines sends the next
\* request or returns.
Klines_Page(ok) ==
    /\ kpc = "requesting"
    /\ LET request_limit == Min(kl.remaining, MAX_PER_REQUEST)
           data == IF ok THEN KlinesPage(kl.current_end_time, request_limit) ELSE <<>>
           all == data \o kl.all_klines
           remaining == kl.remaining - Len(data)
           through == ~ok \/ data = <<>> \/ Len(data) < request_limit \/ remaining <= 0
           next_end == IF data # <<>> THEN data[1] - 1 ELSE kl.current_end_time
       IN IF through
          THEN /\ kpc' = "returned"
               /\ kl' = [kl EXCEPT !.all_klines = KlinesResult(all, kl.include_current, kl.limit),
                                   !.remaining = IF Len(data) < request_limit THEN kl.remaining
                                                 ELSE remaining,
                                   !.failed = ~ok]
          ELSE /\ kpc' = "requesting"
               /\ kl' = [kl EXCEPT !.all_klines = all,
                                   !.remaining = remaining,
                                   !.current_end_time = next_end,
                                   !.requests = Append(kl.requests,
                                       [limit |-> Min(remaining, MAX_PER_REQUEST),
                                        endTime |-> next_end])]

\* The caller has taken the list.
Klines_Done ==
    /\ kpc = "returned"
    /\ kpc' = "idle"
    /\ kl' = NoKlines

NextKlines ==
    \/ \E limit \in LimitInputs, include_current \in BOOLEAN :
          Klines_Begin(limit, include_current) /\ UNCHANGED restKlines
    \/ \E ok \in BOOLEAN : Klines_Page(ok) /\ UNCHANGED restKlines
    \/ Klines_Done /\ UNCHANGED restKlines

InitKlines == CoreIdle /\ SideIdle

SpecKlines == InitKlines /\ [][NextKlines]_vars

\* C15: for every limit N and both values of include_current, when no
\* request fails, get_klines issues ceil(N / 1000) requests of at most 1000
\* candles, each later one ending 1 ms before the earliest open time so far,
\* and returns exactly N candles in strictly ascending open-time order.
C15_PagedExactly ==
    (kpc = "returned" /\ ~kl.failed) =>
        /\ Len(kl.requests) = (kl.limit + MAX_PER_REQUEST - 1) \div MAX_PER_REQUEST
        /\ \A i \in DOMAIN kl.requests :
            /\ kl.requests[i].limit <= MAX_PER_REQUEST
            /\ i > 1 => kl.requests[i].endTime
                          = OpenTime(HistoryLen - (i - 1) * MAX_PER_REQUEST + 1) - 1
        /\ Len(kl.all_klines) = kl.limit
        /\ \A i \in 1..(Len(kl.all_klines) - 1) : kl.all_klines[i] < kl.all_klines[i + 1]

\* ------------------------------------------------- main: review post-hook
MaxClosedTrades == 3
RECENT_TRADES == 5

ReviewSymbols == {"BTCUSDT", "ETHUSDT", "SOLUSDT"}

\* The complete (paired) trades _process_trades_for_review can return.
CompleteTrades == [symbol : ReviewSymbols, order_id : {1, 2}]

ClosedTradeInputs == UNION {[1..n -> CompleteTrades] : n \in 0..MaxClosedTrades}

\* The methods the ContextManager class defines.
ContextManagerMethods ==
    {"save_review_knowledge", "load_review_knowledge", "save_optimized_strategies",
     "load_optimized_strategies", "save_learning_results", "load_learning_results",
     "load_all_context", "save_all_context", "clear_all", "get_context_stats"}

\* getattr(context_manager, name) raises AttributeError
AttributeMissing(name) == name \notin ContextManagerMethods

\* perform_review_from_history up to its await of get_closed_trades; without
\* a platform it returns at once.
Hook_Begin(platform) ==
    /\ hpc = "idle"
    /\ hpc' = IF platform THEN "fetching" ELSE "done"
    /\ UNCHANGED <<recent_trades, review_calls, reviewed_symbols_file>>

\* The closed trades arrive (or the call raises): the hook pairs them, keeps
\* the first five complete trades and asks the context manager for the
\* reviewed symbols; the exception of that call ends the hook silently
\* before the loop over the trades.
Hook_Fetched(ok, complete) ==
    /\ hpc = "fetching"
    /\ hpc' = "done"
    /\ IF ok /\ complete # <<>>
       THEN /\ recent_trades' = SubSeq(complete, 1, Min(RECENT_TRADES, Len(complete)))
            /\ IF AttributeMissing("load_reviewed_symbols")
               THEN UNCHANGED <<review_calls, reviewed_symbols_file>>
               ELSE /\ review_calls' = review_calls \o
                          SelectSeq(recent_trades',
                                    LAMBDA t : t.symbol \notin reviewed_symbols_file)
                    /\ reviewed_symbols_file' = reviewed_symbols_file \cup
                          {recent_trades'[i].symbol : i \in DOMAIN recent_trades'}
       ELSE UNCHANGED <<recent_trades, review_calls, reviewed_symbols_file>>

\* The hook has returned to the scan; the next scan may run it again.
Hook_Done ==
    /\ hpc = "done"
    /\ hpc' = "idle"
    /\ recent_trades' = <<>>
    /\ UNCHANGED <<review_calls, reviewed_symbols_file>>

NextHook ==
    \/ \E platform \in BOOLEAN :
          Hook_Begin(platform) /\ UNCHANGED restHook
    \/ \E ok \in BOOLEAN, complete \in ClosedTradeInputs :
          Hook_Fetched(ok, complete) /\ UNCHANGED restHook
    \/ Hook_Done /\ UNCHANGED restHook

InitHook == CoreIdle /\ SideIdle

SpecHook == InitHook /\ [][NextHook]_vars

\* C16: when the review post-hook is through, every complete closed trade it
\* was given whose symbol was not in the reviewed set has been handed to
\* review_trade and its symbol is recorded in the persisted set.
C16_ReviewedOnce ==
    hpc = "done" =>
        \A i \in DOMAIN recent_trades :
            /\ recent_trades[i].symbol \in reviewed_symbols_file
            /\ \E j \in DOMAIN review_calls : review_calls[j].symbol = recent_trades[i].symbol

\* ------------------------------------------------- analyzer: rolling context
MaxAdds == 22
MAX_REVIEW_KNOWLEDGE == 20
MAX_OPTIMIZED_STRATEGIES == 10
MAX_LEARNING_RESULTS == 20

\* A trim that would keep the first n entries.
KeepOldest(list, n) == IF Len(list) > n THEN SubSeq(list, 1, n) ELSE list

\* if len(list) > n: list = list[-n:]
KeepRecent(list, n) == IF Len(list) > n THEN SubSeq(list, Len(list) - n + 1, Len(list)) ELSE list

\* What save_review_knowledge / save_optimized_strategies /
\* save_learning_results leave on disk when they run to their end.
Saved(list) == [exists |-> TRUE, complete |-> TRUE, count |-> Len(list), payload |-> list]

\* _save_context: save_all_context writes the three lists.
SaveContext(review, strategies, learning) ==
    context_files' = [k \in ContextKinds |->
                         IF k = "review" THEN Saved(review)
                         ELSE IF k = "strategy" THEN Saved(strategies)
                         ELSE Saved(learning)]

\* More entries may still be added.
MayAdd(n) ==
    context_added["review"] + context_added["strategy"] + context_added["learning"] + n <= MaxAdds

\* add_review_knowledge: the review is appended, the list trimmed and the
\* context saved; a strategy derived from the review is appended to the
\* strategies, trimmed and saved likewise.
AddReview(truthy, derives) ==
    /\ MayAdd(2)
    /\ truthy
    /\ LET id == context_added["review"] + 1
           sid == context_added["strategy"] + 1
           review == KeepRecent(Append(review_knowledge, id), MAX_REVIEW_KNOWLEDGE)
           strategies == IF derives
                         THEN KeepRecent(Append(optimized_strategies, sid), MAX_OPTIMIZED_STRATEGIES)
                         ELSE optimized_strategies
       IN /\ review_knowledge' = review
          /\ optimized_strategies' = strategies
          /\ context_added' = [context_added EXCEPT !["review"] = id,
                                  !["strategy"] = IF derives THEN sid ELSE @]
          /\ SaveContext(review, strategies, learning_results)
    /\ UNCHANGED <<learning_results, saving>>

\* add_optimized_strategy
AddStrategy(truthy) ==
    /\ MayAdd(1)
    /\ truthy
    /\ LET sid == context_added["strategy"] + 1
           strategies == KeepRecent(Append(optimized_strategies, sid), MAX_OPTIMIZED_STRATEGIES)
       IN /\ optimized_strategies' = strategies
          /\ context_added' = [context_added EXCEPT !["strategy"] = sid]
          /\ SaveContext(review_knowledge, strategies, learning_results)
    /\ UNCHANGED <<review_knowledge, learning_results, saving>>

\* add_learning_result
AddLearning(truthy) ==
    /\ MayAdd(1)
    /\ truthy
    /\ LET id == context_added["learning"] + 1
           learning == KeepRecent(Append(learning_results, id), MAX_LEARNING_RESULTS)
       IN /\ learning_results' = learning
          /\ context_added' = [context_added EXCEPT !["learning"] = id]
          /\ SaveContext(review_knowledge, optimized_strategies, learning)
    /\ UNCHANGED <<review_knowledge, optimized_strategies, saving>>

\* clear_review_knowledge / clear_optimized_strategies
ClearList(kind) ==
    /\ kind \in {"review", "strategy"}
    /\ review_knowledge' = IF kind = "review" THEN <<>> ELSE review_knowledge
    /\ optimized_strategies' = IF kind = "strategy" THEN <<>> ELSE optimized_strategies
    /\ SaveContext(review_knowledge', optimized_strategies', learning_results)
    /\ UNCHANGED <<learning_results, context_added, saving>>

\* ContextManager.clear_all: the files are deleted, the lists in memory stay.
ClearAll ==
    /\ context_files' = [k \in ContextKinds |-> NoFile]
    /\ UNCHANGED <<review_knowledge, optimized_strategies, learning_results, context_added,
                   saving>>

\* A new process: the lists start empty and _load_context replaces each by
\* the payload on disk when that is not empty.
LoadContext ==
    /\ review_knowledge' = context_files["review"].payload
    /\ optimized_strategies' = context_files["strategy"].payload
    /\ learning_results' = context_files["learning"].payload
    /\ UNCHANGED <<context_files, context_added, saving>>

NextContext ==
    \/ \E truthy, derives \in BOOLEAN :
          AddReview(truthy, derives) /\ UNCHANGED restContext
    \/ \E truthy \in BOOLEAN :
          AddStrategy(truthy) /\ UNCHANGED restContext
    \/ \E truthy \in BOOLEAN :
          AddLearning(truthy) /\ UNCHANGED restContext
    \/ \E kind \in ContextKinds :
          ClearList(kind) /\ UNCHANGED restContext
    \/ ClearAll /\ UNCHANGED restContext
    \/ LoadContext /\ UNCHANGED restContext

InitContext == CoreIdle /\ SideIdle

SpecContext == InitContext /\ [][NextContext]_vars

\* The entries are consecutive: none but the oldest were dropped and the
\* order of insertion is kept.
Rolling(list) == \A i \in 1..(Len(list) - 1) : list[i + 1] = list[i] + 1

\* C17: after any sequence of additions and clears the review list holds at
\* most 20 entries, the strategies at most 10, the learning results at most
\* 20, in memory and on disk; a full list drops its oldest entry and keeps
\* the order of the others, the newest entry being the last; a file holds
\* what is in memory, and its count is the length of its payload.
C17_BoundedRolling ==
    /\ Len(review_knowledge) <= MAX_REVIEW_KNOWLEDGE
    /\ Len(optimized_strategies) <= MAX_OPTIMIZED_STRATEGIES
    /\ Len(learning_results) <= MAX_LEARNING_RESULTS
    /\ Len(context_files["review"].payload) <= MAX_REVIEW_KNOWLEDGE
    /\ Len(context_files["strategy"].payload) <= MAX_OPTIMIZED_STRATEGIES
    /\ Len(context_files["learning"].payload) <= MAX_LEARNING_RESULTS
    /\ Rolling(review_knowledge) /\ Rolling(optimized_strategies) /\ Rolling(learning_results)
    /\ \A k \in ContextKinds : context_files[k].count = Len(context_files[k].payload)
    /\ review_knowledge # <<>> =>
          review_knowledge[Len(review_knowledge)] = context_added["review"]
    /\ optimized_strategies # <<>> =>
          optimized_strategies[Len(optimized_strategies)] = context_added["strategy"]
    /\ learning_results # <<>> =>
          learning_results[Len(learning_results)] = context_added["learning"]
    /\ context_files["review"].exists => context_files["review"].payload = review_knowledge
    /\ context_files["strategy"].exists =>
          context_files["strategy"].payload = optimized_strategies
    /\ context_files["learning"].exists => context_files["learning"].payload = learning_results

\* The review list is full and has dropped its oldest entry, and the file
\* holds the twenty that are left.
C17_Evicted ==
    /\ Len(review_knowledge) = MAX_REVIEW_KNOWLEDGE
    /\ review_knowledge[1] = 2
    /\ context_files["review"].exists
    /\ context_files["review"].count = MAX_REVIEW_KNOWLEDGE

\* ------------------------------------------------- context manager: one save
MaxSavedEntries == 2

ListOf(kind) ==
    IF kind = "review" THEN review_knowledge
    ELSE IF kind = "strategy" THEN optimized_strategies
    ELSE learning_results

\* open(file, 'w') has run and the write has not: the file is empty.
Truncated == [exists |-> TRUE, complete |-> FALSE, count |-> 0, payload |-> <<>>]

\* load_*: a missing file and a file that does not parse give the empty list.
Loaded(file) == IF file.exists /\ file.complete THEN file.payload ELSE <<>>

\* add_learning_result up to save_all_context: the entry is appended and the
\* three saves are created.
Save_Begin ==
    /\ \A k \in ContextKinds : saving[k] = "idle"
    /\ context_added["learning"] < MaxSavedEntries
    /\ learning_results' = KeepRecent(Append(learning_results, context_added["learning"] + 1),
                                      MAX_LEARNING_RESULTS)
    /\ context_added' = [context_added EXCEPT !["learning"] = @ + 1]
    /\ saving' = [k \in ContextKinds |-> "pending"]
    /\ UNCHANGED <<review_knowledge, optimized_strategies, context_files>>

\* save_*: the file is opened for writing, which empties it.
Save_Open(kind) ==
    /\ saving[kind] = "pending"
    /\ saving' = [saving EXCEPT ![kind] = "opened"]
    /\ context_files' = [context_files EXCEPT ![kind] = Truncated]
    /\ UNCHANGED <<review_knowledge, optimized_strategies, learning_results, context_added>>

\* save_*: the JSON text is written and the file closed.
Save_Write(kind) ==
    /\ saving[kind] = "opened"
    /\ saving' = [saving EXCEPT ![kind] = "idle"]
    /\ context_files' = [context_files EXCEPT ![kind] = Saved(ListOf(kind))]
    /\ UNCHANGED <<review_knowledge, optimized_strategies, learning_results, context_added>>

\* The process dies in the middle of a save and a new one loads the context.
Save_Interrupted ==
    /\ \E k \in ContextKinds : saving[k] # "idle"
    /\ saving' = [k \in ContextKinds |-> "idle"]
    /\ review_knowledge' = Loaded(context_files["review"])
    /\ optimized_strategies' = Loaded(context_files["strategy"])
    /\ learning_results' = Loaded(context_files["learning"])
    /\ UNCHANGED <<context_files, context_added>>

NextSave ==
    \/ Save_Begin /\ UNCHANGED restContext
    \/ \E kind \in ContextKinds :
          Save_Open(kind) /\ UNCHANGED restContext
    \/ \E kind \in ContextKinds :
          Save_Write(kind) /\ UNCHANGED restContext
    \/ Save_Interrupted /\ UNCHANGED restContext

InitSave == CoreIdle /\ SideIdle

SpecSave == InitSave /\ [][NextSave]_vars

\* C18: a payload file is replaced atomically: whenever no save is running,
\* also after an interrupted one, every file on disk is a complete payload.
C18_AtomicReplace ==
    (\A k \in ContextKinds : saving[k] = "idle") =>
        \A k \in ContextKinds : context_files[k].complete

\* ------------------------------------------ analyzer: parsing the LLM's response
\* A response is a sequence of whitespace-separated tokens: braces, code
\* fences ("fence:json" opens a json block, "fence" is three bare backticks),
\* words and "key": value members.
MaxResponseLen == 4

Tok(t) == [t |-> t, k |-> "", vt |-> "", s |-> "", n |-> 0]
Word(s) == [t |-> "word", k |-> "", vt |-> "", s |-> s, n |-> 0]
MemberStr(k, s) == [t |-> "member", k |-> k, vt |-> "str", s |-> s, n |-> 0]
MemberNum(k, n) == [t |-> "member", k |-> k, vt |-> "num", s |-> "", n |-> n]
MemberNull(k) == [t |-> "member", k |-> k, vt |-> "null", s |-> "", n |-> 0]

\* Prices are in hundredths, confidences in tenths.
CurrentPrice == 10000

\* str.find / str.rfind over tokens: the first (last) position from `from`
\* on whose token is one of `types`; 0 when there is none.
Find(response, types, from) ==
    LET hits == {i \in from..Len(response) : response[i].t \in types}
    IN IF hits = {} THEN 0 ELSE CHOOSE i \in hits : \A j \in hits : i <= j

RFind(response, types) ==
    LET hits == {i \in 1..Len(response) : response[i].t \in types}
    IN IF hits = {} THEN 0 ELSE CHOOSE i \in hits : \A j \in hits : i >= j

Has(response, types) == Find(response, types, 1) # 0

\* The text handed to json.loads.
ExtractJson(response) ==
    IF Has(response, {"fence:json"})
    THEN LET start == Find(response, {"fence:json"}, 1) + 1
             end == Find(response, {"fence:json", "fence"}, start)
         IN IF end # 0 THEN SubSeq(response, start, end - 1) ELSE response
    ELSE IF Has(response, {"fence"})
    THEN LET start == Find(response, {"fence"}, 1) + 1
             end == Find(response, {"fence"}, start)
         IN IF end # 0 THEN SubSeq(response, start, end - 1) ELSE response
    ELSE SubSeq(response, Find(response, {"{"}, 1), RFind(response, {"}"}))

\* json.loads: an object is an opening brace, members, a closing brace.
IsObject(json_str) ==
    /\ Len(json_str) >= 2
    /\ json_str[1].t = "{"
    /\ json_str[Len(json_str)].t = "}"
    /\ \A i \in 2..(Len(json_str) - 1) : json_str[i].t = "member"

Loads(json_str) ==
    IF IsObject(json_str)
    THEN [exc |-> "none", data |-> SubSeq(json_str, 2, Len(json_str) - 1)]
    ELSE [exc |-> "JSONDecodeError", data |-> <<>>]

\* data.get(key, default): of a repeated key the last member counts.
Get(data, key, default) ==
    LET hits == {i \in 1..Len(data) : data[i].k = key}
    IN IF hits = {} THEN default ELSE data[CHOOSE i \in hits : \A j \in hits : i >= j]

\* float(value): a number converts, other text is a ValueError, null a TypeError.
FloatExc(value) ==
    IF value.vt = "num" THEN "none" ELSE IF value.vt = "str" THEN "ValueError" ELSE "TypeError"

FloatKeys ==
    <<"confidence", "entry_price", "stop_loss", "take_profit", "support", "resistance">>

FloatDefault(key) ==
    IF key = "confidence" THEN 5
    ELSE IF key = "entry_price" THEN CurrentPrice
    ELSE IF key = "stop_loss" THEN (CurrentPrice * 95) \div 100
    ELSE IF key = "take_profit" THEN (CurrentPrice * 105) \div 100
    ELSE IF key = "support" THEN (CurrentPrice * 97) \div 100
    ELSE (CurrentPrice * 103) \div 100

\* The first float() of the result literal that fails, in the literal's order.
FieldsExc(data) ==
    LET bad == {i \in 1..Len(FloatKeys) :
                   FloatExc(Get(data, FloatKeys[i], MemberNum(FloatKeys[i], 0))) # "none"}
    IN IF bad = {} THEN "none"
       ELSE FloatExc(Get(data, FloatKeys[CHOOSE i \in bad : \A j \in bad : i <= j],
                         MemberNum("", 0)))

\* The one warning of the keyword result ("the response is not in JSON format,
\* the parse may be inaccurate").
NOT_JSON == "response not in JSON format"

JsonResult(data) ==
    [source |-> "json",
     action |-> Get(data, "action", MemberStr("action", HOLD_ACTION)).s,
     confidence |-> Get(data, "confidence", MemberNum("", FloatDefault("confidence"))).n,
     entry_price |-> Get(data, "entry_price", MemberNum("", FloatDefault("entry_price"))).n,
     stop_loss |-> Get(data, "stop_loss", MemberNum("", FloatDefault("stop_loss"))).n,
     take_profit |-> Get(data, "take_profit", MemberNum("", FloatDefault("take_profit"))).n,
     warnings |-> {}]

\* any(word in response_lower for word in words); the Chinese keywords are
\* written in pinyin.
Mentions(response, words) == \E i \in 1..Len(response) : response[i].s \in words

TextResult(response) ==
    LET action == IF Mentions(response, {"mairu", "buy", LONG_ACTION, "long"}) THEN LONG_ACTION
                  ELSE IF Mentions(response, {"maichu", "sell", SHORT_ACTION, "short"}) THEN SHORT_ACTION
                  ELSE HOLD_ACTION
        confidence == IF Mentions(response, {"qianglie", "gaodu", "very", "strong"}) THEN 8
                      ELSE IF Mentions(response, {"jinshen", "di", "weak"}) THEN 3
                      ELSE 5
    IN [source |-> "text",
        action |-> action,
        confidence |-> confidence,
        entry_price |-> CurrentPrice,
        stop_loss |-> (CurrentPrice * (IF action = LONG_ACTION THEN 97 ELSE 103)) \div 100,
        take_profit |-> (CurrentPrice * (IF action = LONG_ACTION THEN 105 ELSE 95)) \div 100,
        warnings |-> {NOT_JSON}]

\* The except clauses of the parser's try, in order.
ParseHandlers_JsonOnly == <<"JSONDecodeError">>

ParseHandlers == <<"JSONDecodeError", "Exception">>

\* Some except clause of the try takes the exception.
ParseCatches(exc) ==
    \E i \in 1..Len(ParseHandlers) : ParseHandlers[i] = exc \/ ParseHandlers[i] = "Exception"

ResponseAlphabet ==
    {Tok("{"), Tok("}"), Tok("fence:json"), Tok("fence"), Word("long"),
     MemberStr("action", SHORT_ACTION), MemberStr("confidence", "high"), MemberNum("confidence", 9)}

ParseInputs == UNION {[1..n -> ResponseAlphabet] : n \in 0..MaxResponseLen}

Parse_Begin(response) ==
    /\ parsing.pc = "idle"
    /\ parsing' = [NoParsing EXCEPT !.pc = "try", !.response = response]
    /\ UNCHANGED analysis

\* if '{' in response and '}' in response: ... json_str = ...
Parse_Extract ==
    /\ parsing.pc = "try"
    /\ IF Has(parsing.response, {"{"}) /\ Has(parsing.response, {"}"})
       THEN parsing' = [parsing EXCEPT !.pc = "loads", !.json_str = ExtractJson(parsing.response)]
       ELSE parsing' = [parsing EXCEPT !.pc = "text"]
    /\ UNCHANGED analysis

\* data = json.loads(json_str)
Parse_Loads ==
    /\ parsing.pc = "loads"
    /\ LET loaded == Loads(parsing.json_str)
       IN IF loaded.exc = "none"
          THEN parsing' = [parsing EXCEPT !.pc = "fields", !.data = loaded.data]
          ELSE parsing' = [parsing EXCEPT !.pc = "except", !.exc = loaded.exc]
    /\ UNCHANGED analysis

\* result = {...}; return result
Parse_Fields ==
    /\ parsing.pc = "fields"
    /\ IF FieldsExc(parsing.data) = "none"
       THEN parsing' = [parsing EXCEPT !.pc = "done", !.result = JsonResult(parsing.data)]
       ELSE parsing' = [parsing EXCEPT !.pc = "except", !.exc = FieldsExc(parsing.data)]
    /\ UNCHANGED analysis

\* except json.JSONDecodeError / except Exception: log and go on to the text parse.
Parse_Except ==
    /\ parsing.pc = "except"
    /\ IF ParseCatches(parsing.exc)
       THEN parsing' = [parsing EXCEPT !.pc = "text", !.caught = parsing.exc, !.exc = "none"]
       ELSE parsing' = [parsing EXCEPT !.pc = "done", !.raised = parsing.exc, !.exc = "none"]
    /\ UNCHANGED analysis

\* The keyword parse of the whole response.
Parse_Text ==
    /\ parsing.pc = "text"
    /\ parsing' = [parsing EXCEPT !.pc = "done", !.result = TextResult(parsing.response)]
    /\ UNCHANGED analysis

NextParse ==
    \/ \E response \in ParseInputs : Parse_Begin(response) /\ UNCHANGED restAnalysis
    \/ Parse_Extract /\ UNCHANGED restAnalysis
    \/ Parse_Loads /\ UNCHANGED restAnalysis
    \/ Parse_Fields /\ UNCHANGED restAnalysis
    \/ Parse_Except /\ UNCHANGED restAnalysis
    \/ Parse_Text /\ UNCHANGED restAnalysis

InitParse == CoreIdle /\ SideIdle

SpecParse == InitParse /\ [][NextParse]_vars

\* C20: parsing a response never raises; it returns the result read from the
\* JSON object, or, when no object could be read, the keyword result whose
\* warnings hold the not-JSON marker.
C20_NeverRaises ==
    parsing.pc = "done" =>
        /\ parsing.raised = "none"
        /\ \/ /\ parsing.result.source = "json"
              /\ parsing.caught = "none"
              /\ IsObject(parsing.json_str)
           \/ /\ parsing.result.source = "text"
              /\ NOT_JSON \in parsing.result.warnings
              /\ parsing.result.action \in {LONG_ACTION, SHORT_ACTION, HOLD_ACTION}

\* An object was read but one of its numbers does not convert: the second
\* except clause sends the response to the keyword parse.
C20_ConversionFellBack ==
    /\ parsing.pc = "done"
    /\ parsing.caught = "ValueError"
    /\ parsing.result.source = "text"

\* ------------------------------------------------ analyzer: analyze_market
ATR_MULTIPLIER == 2
RISK_REWARD_RATIO == 2

Max(a, b) == IF a > b THEN a ELSE b

\* _parse_analysis_response as one call: what it returns or raises.
ParseAnalysisResponse(response) ==
    LET loaded == Loads(ExtractJson(response))
        exc == IF ~(Has(response, {"{"}) /\ Has(response, {"}"})) THEN "none"
               ELSE IF loaded.exc # "none" THEN loaded.exc
               ELSE FieldsExc(loaded.data)
    IN IF Has(response, {"{"}) /\ Has(response, {"}"}) /\ exc = "none"
       THEN [exc |-> "none", result |-> JsonResult(loaded.data)]
       ELSE IF exc = "none" \/ ParseCatches(exc)
       THEN [exc |-> "none", result |-> TextResult(response)]
       ELSE [exc |-> exc, result |-> <<>>]

\* The last ATR value of the indicators, when they hold one.
NoAtr == [present |-> FALSE, value |-> 0]
Atr(value) == [present |-> TRUE, value |-> value]

\* if atr is None or atr == 0: atr = entry_price * 0.02
AtrFor(entry_price, atr) ==
    IF ~atr.present \/ atr.value = 0 THEN (entry_price * 2) \div 100 ELSE atr.value

Position(action) == IF action \in {LONG_ACTION, "mairu", "buy", "long"} THEN "long" ELSE "short"

calculate_stop_loss(entry_price, atr, atr_multiplier, position) ==
    LET stop_distance == atr * atr_multiplier
    IN IF position = "long" THEN Max(entry_price - stop_distance, 0)
       ELSE Max(entry_price + stop_distance, 0)

calculate_take_profit(entry_price, stop_loss, risk_reward_ratio, position) ==
    LET profit_distance == Abs(entry_price - stop_loss) * risk_reward_ratio
    IN IF position = "long" THEN Max(entry_price + profit_distance, 0)
       ELSE Max(entry_price - profit_distance, 0)

\* calculate_leverage and calculate_risk_metrics divide by entry_price.
RiskExc(entry_price) == IF entry_price = 0 THEN "ZeroDivisionError" ELSE "none"

\* _enhance_with_risk_management: the result with stop and target replaced,
\* or, when anything in it raises, the result as the parser left it.
EnhanceWithRiskManagement(parsed, atr) ==
    LET position == Position(parsed.action)
        used_atr == AtrFor(parsed.entry_price, atr)
        stop == calculate_stop_loss(parsed.entry_price, used_atr, ATR_MULTIPLIER, position)
        take == calculate_take_profit(parsed.entry_price, stop, RISK_REWARD_RATIO, position)
    IN IF RiskExc(parsed.entry_price) # "none"
       THEN [exc |-> RiskExc(parsed.entry_price), result |-> parsed]
       ELSE [exc |-> "none",
             result |-> [parsed EXCEPT !.stop_loss = stop, !.take_profit = take]]

ActionMembers ==
    {<<>>, <<MemberStr("action", LONG_ACTION)>>, <<MemberStr("action", SHORT_ACTION)>>,
     <<MemberStr("action", HOLD_ACTION)>>, <<MemberStr("action", "buy")>>}

\* A confidence the response gives as a percentage: 85 is 850 tenths.
ConfidenceMembers == {<<>>, <<MemberNum("confidence", 850)>>}

EntryMembers ==
    {<<>>, <<MemberNum("entry_price", 0)>>, <<MemberNum("entry_price", 20000)>>}

ProposedMembers ==
    {<<>>, <<MemberNum("stop_loss", 21000), MemberNum("take_profit", 19000)>>}

AnalysisInputs ==
    {<<Tok("{")>> \o a \o c \o e \o p \o <<Tok("}")>> :
        a \in ActionMembers, c \in ConfidenceMembers, e \in EntryMembers,
        p \in ProposedMembers}
    \cup {<<Word("long")>>, <<Word("short"), Word("weak")>>, <<Word("wait")>>,
          <<Tok("{"), MemberStr("action", LONG_ACTION), MemberStr("entry_price", "market"),
            Tok("}")>>}

AtrInputs == {NoAtr, Atr(0), Atr(150), Atr(6000)}

\* response = await self.provider.chat(...)
Analysis_Begin(response, atr) ==
    /\ analysis.pc = "idle"
    /\ analysis' = [NotAnalysing EXCEPT !.pc = "responded", !.response = response, !.atr = atr]
    /\ UNCHANGED parsing

\* result = self._parse_analysis_response(response, symbol, klines)
Analysis_Parse ==
    /\ analysis.pc = "responded"
    /\ LET parsed == ParseAnalysisResponse(analysis.response)
       IN IF parsed.exc # "none"
          THEN analysis' = [analysis EXCEPT !.pc = "raised", !.exc = parsed.exc]
          ELSE analysis' = [analysis EXCEPT !.pc = "parsed", !.parsed = parsed.result,
                                            !.result = parsed.result]
    /\ UNCHANGED parsing

\* if self.enable_risk_calculation and result['action'] != HOLD_ACTION: ...
Analysis_Enhance ==
    /\ analysis.pc = "parsed"
    /\ IF analysis.result.action # HOLD_ACTION
       THEN LET enhanced == EnhanceWithRiskManagement(analysis.result, analysis.atr)
            IN analysis' = [analysis EXCEPT !.pc = "enhanced", !.result = enhanced.result,
                                            !.exc = enhanced.exc]
       ELSE analysis' = [analysis EXCEPT !.pc = "enhanced"]
    /\ UNCHANGED parsing

\* return result
Analysis_Return ==
    /\ analysis.pc = "enhanced"
    /\ analysis' = [analysis EXCEPT !.pc = "returned"]
    /\ UNCHANGED parsing

NextAnalysis ==
    \/ \E response \in AnalysisInputs, atr \in AtrInputs :
          Analysis_Begin(response, atr) /\ UNCHANGED restAnalysis
    \/ Analysis_Parse /\ UNCHANGED restAnalysis
    \/ Analysis_Enhance /\ UNCHANGED restAnalysis
    \/ Analysis_Return /\ UNCHANGED restAnalysis

InitAnalysis == CoreIdle /\ SideIdle

SpecAnalysis == InitAnalysis /\ [][NextAnalysis]_vars

PricesOrdered(action, entry_price, stop_loss, take_profit) ==
    IF action = LONG_ACTION
    THEN stop_loss < entry_price /\ entry_price < take_profit
    ELSE take_profit < entry_price /\ entry_price < stop_loss

\* C19: a returned analysis that goes long or short with a confidence above
\* zero has its stop, entry and target in the order of its side, whatever
\* prices the response proposed.
C19_ReturnedOrdered ==
    (/\ analysis.pc = "returned"
     /\ analysis.result.action \in {LONG_ACTION, SHORT_ACTION}
     /\ analysis.result.confidence > 0) =>
        PricesOrdered(analysis.result.action, analysis.result.entry_price,
                      analysis.result.stop_loss, analysis.result.take_profit)

\* The same for the analyses whose entry price is above zero.
AnalysisOrderedAboveZero ==
    (/\ analysis.pc = "returned"
     /\ analysis.result.action \in {LONG_ACTION, SHORT_ACTION}
     /\ analysis.result.entry_price > 0) =>
        PricesOrdered(analysis.result.action, analysis.result.entry_price,
                      analysis.result.stop_loss, analysis.result.take_profit)

\* C21: every returned analysis has one of the three actions and a confidence
\* between 0 and 1 (0 and 10 tenths).
C21_ActionAndConfidence ==
    analysis.pc = "returned" =>
        /\ analysis.result.action \in {LONG_ACTION, SHORT_ACTION, HOLD_ACTION}
        /\ analysis.result.confidence >= 0
        /\ analysis.result.confidence <= 10

\* --------------------------------------------------------- scanner: symbols
\* A symbol is a sequence of characters.
USDT == <<"U", "S", "D", "T">>
USDC == <<"U", "S", "D", "C">>
BUSD == <<"B", "U", "S", "D">>
USD == <<"U", "S", "D">>
TUSD == <<"T", "U", "S", "D">>
BTC == <<"B", "T", "C">>
ETH == <<"E", "T", "H">>
BNB == <<"B", "N", "B">>
EUR == <<"E", "U", "R">>
GBP == <<"G", "B", "P">>
JPY == <<"J", "P", "Y">>
CNY == <<"C", "N", "Y">>
DAI == <<"D", "A", "I">>
WBTC == <<"W">> \o BTC

QUOTE_CURRENCIES == <<USDT, USDC, BUSD, USD, TUSD, BTC, ETH, BNB, EUR, GBP, JPY, CNY>>

DEFAULT_QUOTE == USDT

\* str.upper, for the lower-case letters the inputs hold.
UpperChar(ch) ==
    IF ch = "b" THEN "B" ELSE IF ch = "t" THEN "T" ELSE IF ch = "c" THEN "C" ELSE ch

Upper(text) == [i \in 1..Len(text) |-> UpperChar(text[i])]

\* str.strip
Strip(text) ==
    LET inked == {i \in 1..Len(text) : text[i] # " "}
    IN IF inked = {} THEN <<>>
       ELSE SubSeq(text, CHOOSE i \in inked : \A j \in inked : i <= j,
                   CHOOSE i \in inked : \A j \in inked : i >= j)

EndsWith(text, suffix) ==
    /\ Len(suffix) <= Len(text)
    /\ SubSeq(text, Len(text) - Len(suffix) + 1, Len(text)) = suffix

NotParsed == [ok |-> FALSE, base |-> <<>>, quote |-> <<>>]
Parsed(base, quote) == [ok |-> TRUE, base |-> base, quote |-> quote]

\* The first of '/', '-', '_' that splits the symbol into exactly two parts.
ParseWithSeparator(symbol) ==
    LET At(sep) == {i \in 1..Len(symbol) : symbol[i] = sep}
        Splits(sep) == Cardinality(At(sep)) = 1
        Cut(sep) == LET i == CHOOSE k \in At(sep) : TRUE
                    IN Parsed(SubSeq(symbol, 1, i - 1), SubSeq(symbol, i + 1, Len(symbol)))
    IN IF Splits("/") THEN Cut("/")
       ELSE IF Splits("-") THEN Cut("-")
       ELSE IF Splits("_") THEN Cut("_")
       ELSE NotParsed

\* The first quote currency of the list the symbol ends with, with a base
\* left before it.
ParseWithoutSeparator(symbol) ==
    LET fits == {q \in 1..Len(QUOTE_CURRENCIES) :
                    /\ EndsWith(symbol, QUOTE_CURRENCIES[q])
                    /\ Len(symbol) > Len(QUOTE_CURRENCIES[q])}
    IN IF fits = {} THEN NotParsed
       ELSE LET quote == QUOTE_CURRENCIES[CHOOSE q \in fits : \A r \in fits : q <= r]
            IN Parsed(SubSeq(symbol, 1, Len(symbol) - Len(quote)), quote)

Parse(text) ==
    IF text = <<>> THEN NotParsed
    ELSE LET symbol == Strip(Upper(text))
         IN IF ParseWithSeparator(symbol).ok THEN ParseWithSeparator(symbol)
            ELSE ParseWithoutSeparator(symbol)

\* normalize(symbol, "binance")
Normalize(text) ==
    IF Parse(text).ok THEN Parse(text).base \o Parse(text).quote ELSE text

SymbolBases == {BTC, WBTC, <<"b", "t", "c">>, <<" ">> \o ETH, <<>>}
SymbolSeparators == {<<>>, <<"/">>, <<"-">>, <<"_">>}
SymbolQuotes == {USDT, TUSD, USD, BTC, DAI, USDT \o <<" ">>, <<>>}

SymbolInputTexts ==
    {b \o sep \o q : b \in SymbolBases, sep \in SymbolSeparators, q \in SymbolQuotes}

Symbol_Begin(text) ==
    /\ sym.pc = "idle"
    /\ sym' = [NoSym EXCEPT !.pc = "given", !.input = text]
    /\ UNCHANGED search

Symbol_Parse ==
    /\ sym.pc = "given"
    /\ sym' = [sym EXCEPT !.pc = "parsed", !.first = Parse(sym.input)]
    /\ UNCHANGED search

Symbol_Normalize ==
    /\ sym.pc = "parsed"
    /\ sym' = [sym EXCEPT !.pc = "normalized", !.normalized = Normalize(sym.input)]
    /\ UNCHANGED search

Symbol_Reparse ==
    /\ sym.pc = "normalized"
    /\ sym' = [sym EXCEPT !.pc = "reparsed", !.second = Parse(sym.normalized)]
    /\ UNCHANGED search

NextSymbol ==
    \/ \E text \in SymbolInputTexts : Symbol_Begin(text) /\ UNCHANGED restSymbol
    \/ Symbol_Parse /\ UNCHANGED restSymbol
    \/ Symbol_Normalize /\ UNCHANGED restSymbol
    \/ Symbol_Reparse /\ UNCHANGED restSymbol

InitSymbol == CoreIdle /\ SideIdle

SpecSymbol == InitSymbol /\ [][NextSymbol]_vars

\* C22: for an input that parses, parsing its binance form gives the same
\* base and quote again.
C22_RoundTrip ==
    (sym.pc = "reparsed" /\ sym.first.ok) =>
        /\ sym.second.ok
        /\ sym.second.base = sym.first.base
        /\ sym.second.quote = sym.first.quote

\* The same for the inputs that hold no separator.
RoundTripWithoutSeparator ==
    (/\ sym.pc = "reparsed"
     /\ sym.first.ok
     /\ \A i \in 1..Len(sym.input) : sym.input[i] \notin {"/", "-", "_"}) =>
        /\ sym.second.ok
        /\ sym.second.base = sym.first.base
        /\ sym.second.quote = sym.first.quote

\* ----------------------------------------------------- scanner: smart search
\* [x for x in symbols if keep(x)], in the order of symbols.
RECURSIVE Filter(_, _)
Filter(symbols, keep) ==
    IF symbols = <<>> THEN <<>>
    ELSE (IF Head(symbols) \in keep THEN <<Head(symbols)>> ELSE <<>>)
         \o Filter(Tail(symbols), keep)

Elements(symbols) == {symbols[i] : i \in 1..Len(symbols)}

\* search_by_currency(currency, symbols, "both")
SearchByCurrency(currency, symbols) ==
    Filter(symbols, {x \in Elements(symbols) :
                        /\ Parse(x).ok
                        /\ Parse(x).base = currency \/ Parse(x).quote = currency})

\* The branch smart_search takes for an input that validate accepts.
SearchAsPair(input_str, symbols) ==
    Filter(symbols, {x \in Elements(symbols) : Normalize(x) = Normalize(input_str)})

\* validate: any input that parses counts as a full pair.
Validate(text) == Parse(text).ok

\* The branch for an input that is not a pair: the matches with the default
\* quote and the input as base first, the other matches after them.
SearchAsCurrency(input_str, symbols, default_quote) ==
    LET matches == SearchByCurrency(input_str, symbols)
        priority == {x \in Elements(matches) :
                        Parse(x).quote = default_quote /\ Parse(x).base = input_str}
    IN Filter(matches, priority) \o Filter(matches, Elements(matches) \ priority)

UniversePairs == {BTC \o USDT, ETH \o BTC, WBTC \o USDT, BTC \o USDC, ETH \o USDT}

UniverseInputs == {<<x, y>> : x, y \in UniversePairs}

SearchInputs == {BTC, ETH, WBTC, <<"b", "t", "c">>, <<" ">> \o ETH, BTC \o USDT}

Search_Begin(input_str, symbols) ==
    /\ search.pc = "idle"
    /\ search' = [NoSearch EXCEPT !.pc = "called", !.input = Strip(Upper(input_str)),
                                  !.symbols = symbols]
    /\ UNCHANGED sym

\* if cls.validate(input_str): return [the symbols equal to it once normalized]
Search_Pair ==
    /\ search.pc = "called"
    /\ Validate(search.input)
    /\ search' = [search EXCEPT !.pc = "returned",
                                !.results = SearchAsPair(search.input, search.symbols)]
    /\ UNCHANGED sym

Search_Currency ==
    /\ search.pc = "called"
    /\ ~Validate(search.input)
    /\ search' = [search EXCEPT !.pc = "returned",
                                !.results = SearchAsCurrency(search.input, search.symbols,
                                                             DEFAULT_QUOTE)]
    /\ UNCHANGED sym

NextSearch ==
    \/ \E input_str \in SearchInputs, symbols \in UniverseInputs :
          Search_Begin(input_str, symbols) /\ UNCHANGED restSymbol
    \/ Search_Pair /\ UNCHANGED restSymbol
    \/ Search_Currency /\ UNCHANGED restSymbol

InitSearch == CoreIdle /\ SideIdle

SpecSearch == InitSearch /\ [][NextSearch]_vars

\* C23: for a bare base that is not itself a pair of the universe and whose
\* pair with the default quote is in the universe, the first result is that pair.
C23_BareBaseExpands ==
    (/\ search.pc = "returned"
     /\ search.input \notin Elements(search.symbols)
     /\ search.input \o DEFAULT_QUOTE \in Elements(search.symbols)) =>
        /\ search.results # <<>>
        /\ Head(search.results) = search.input \o DEFAULT_QUOTE

\* The same for the bases that do not themselves parse as a pair.
BareBaseExpandsUnlessPair ==
    (/\ search.pc = "returned"
     /\ ~Validate(search.input)
     /\ search.input \o DEFAULT_QUOTE \in Elements(search.symbols)) =>
        /\ search.results # <<>>
        /\ Head(search.results) = search.input \o DEFAULT_QUOTE

\* ------------------------------------------------------------ indicators: EMA
MaxCandles == 5
MaxPeriod == 3

FAdd(a, b) == FSub(a, FSub(R(0), b))

\* alpha = 2 / (period + 1)
Alpha(period) == FDiv(R(2), R(period + 1))

\* One step of the recurrence: alpha * close + (1 - alpha) * previous.
EmaStep(period, close_i, previous) ==
    FAdd(FMul(Alpha(period), R(close_i)), FMul(FSub(R(1), Alpha(period)), previous))

RECURSIVE Sum(_, _, _)
Sum(close, from, to) == IF from > to THEN 0 ELSE close[from] + Sum(close, from + 1, to)

\* talib.EMA(close, timeperiod=period): nothing before position period, the
\* simple average of the first period closes there, the recurrence after it.
RECURSIVE TalibEmaAt(_, _, _)
TalibEmaAt(close, period, i) ==
    IF i < period THEN NaN
    ELSE IF i = period THEN FDiv(R(Sum(close, 1, period)), R(period))
    ELSE EmaStep(period, close[i], TalibEmaAt(close, period, i - 1))

TalibEma(close, period) == [i \in 1..Len(close) |-> TalibEmaAt(close, period, i)]

\* pd.Series(close).ewm(span=period, adjust=False).mean(): the first close at
\* position 1, the recurrence after it; min_periods is 0, no position is empty.
RECURSIVE PandasEmaAt(_, _, _)
PandasEmaAt(close, period, i) ==
    IF i = 1 THEN R(close[1])
    ELSE EmaStep(period, close[i], PandasEmaAt(close, period, i - 1))

PandasEma(close, period) == [i \in 1..Len(close) |-> PandasEmaAt(close, period, i)]

CloseInputs == UNION {[1..n -> {10, 12}] : n \in 1..MaxCandles}

\* calculate_ema is called; TALIB_AVAILABLE is what the import at load gave.
Ema_Begin(close, period, backend) ==
    /\ ema.pc = "idle"
    /\ ema' = [NoEma EXCEPT !.pc = "called", !.backend = backend, !.period = period,
                            !.close = close]

\* if TALIB_AVAILABLE: return talib.EMA(close, timeperiod=period)
Ema_Talib ==
    /\ ema.pc = "called"
    /\ ema.backend = "talib"
    /\ ema' = [ema EXCEPT !.pc = "returned", !.out = TalibEma(ema.close, ema.period)]

\* else: return pd.Series(close).ewm(span=period, adjust=False).mean().values
Ema_Pandas ==
    /\ ema.pc = "called"
    /\ ema.backend = "pandas"
    /\ ema' = [ema EXCEPT !.pc = "returned", !.out = PandasEma(ema.close, ema.period)]

NextEma ==
    \/ \E close \in CloseInputs, period \in 2..MaxPeriod, backend \in {"talib", "pandas"} :
          Ema_Begin(close, period, backend) /\ UNCHANGED restIndicator
    \/ Ema_Talib /\ UNCHANGED restIndicator
    \/ Ema_Pandas /\ UNCHANGED restIndicator

InitEma == CoreIdle /\ SideIdle

SpecEma == InitEma /\ [][NextEma]_vars

Warmup(out, period) ==
    /\ \A i \in 1..Len(out) : i < period => IsNaN(out[i])
    /\ \A i \in 1..Len(out) : i >= period => ~IsNaN(out[i])

\* C24: for a candle sequence longer than the period, EMA(period) is as long
\* as the sequence, undefined at its first period - 1 positions and defined
\* at all later ones, with either backend.
C24_EmaWarmup ==
    (ema.pc = "returned" /\ Len(ema.close) >= ema.period + 1) =>
        /\ Len(ema.out) = Len(ema.close)
        /\ Warmup(ema.out, ema.period)

\* The same for the TA-Lib backend alone.
EmaWarmupWithTalib ==
    (ema.pc = "returned" /\ ema.backend = "talib" /\ Len(ema.close) >= ema.period + 1) =>
        /\ Len(ema.out) = Len(ema.close)
        /\ Warmup(ema.out, ema.period)

\* ------------------------------------------- properties of execute_trade
\* execute_trade is running or has just returned.
InExecuteTrade ==
    \/ pc \in {"double_check", "configure", "balance", "entry", "stop_loss", "take_profit",
               "compensate"}
    \/ ReturnedFrom("execute_trade")

\* C25: in an execute_trade that reaches the orders, set_leverage and then
\* set_margin_type come before the entry order, a stop-loss order is sent
\* only after an accepted entry, a take-profit order only after an accepted
\* stop-loss, and the symbol is cached only after an accepted entry.
C25_StrictOrder ==
    (InExecuteTrade /\ Sent("entry")) =>
        /\ SentAfter("set_leverage", "set_margin_type")
        /\ SentAfter("set_margin_type", "entry")
        /\ Sent("stop_loss") => SentAfter("entry", "stop_loss") /\ loc.entry_order # 0
        /\ Sent("take_profit") =>
               SentAfter("stop_loss", "take_profit") /\ loc.stop_loss_order # 0
        /\ ~SentAfter("stop_loss", "entry")
        /\ ~SentAfter("take_profit", "stop_loss")
        /\ active_positions[loc.symbol] # "ABSENT" =>
               loc.entry_order # 0 /\ Sent("take_profit")

\* All three orders were sent and accepted, and the symbol is cached.
C25_TripleAccepted ==
    /\ ReturnedFrom("execute_trade")
    /\ result.success
    /\ result.take_profit > 0
    /\ calls[Len(calls) - 2] = "entry"
    /\ calls[Len(calls) - 1] = "stop_loss"
    /\ calls[Len(calls)] = "take_profit"
    /\ active_positions[loc.symbol] = loc.position_side

\* C26: when the take-profit order fails after an accepted entry and an
\* accepted stop-loss, execute_trade sends no close order, returns success
\* with the failure in place of the take-profit order, and caches the symbol
\* with the id of the stop-loss order.
C26_TakeProfitFailureKept ==
    (ReturnedFrom("execute_trade") /\ result.take_profit = -1) =>
        /\ result.success
        /\ result.entry > 0
        /\ result.stop_loss > 0
        /\ ~Sent("market_close")
        /\ cp.caller # "execute_trade"
        /\ active_positions[loc.symbol] = loc.position_side
        /\ active_orders[loc.symbol].tracked
        /\ active_orders[loc.symbol].stop_loss_order_id = result.stop_loss
        /\ active_orders[loc.symbol].take_profit_order_id = 0

\* The take-profit order was refused, the position is still open on the
\* exchange and its stop-loss order is resting.
C26_StillProtected ==
    /\ ReturnedFrom("execute_trade")
    /\ result.take_profit = -1
    /\ loc.position_side \in exchPos[loc.symbol]
    /\ \E r \in exchOrders : r.id = result.stop_loss /\ r.type = "STOP_MARKET"
    /\ active_orders[loc.symbol].stop_loss_order_id = result.stop_loss

\* The quantity steps 7 - 7.2 give for the running call.
SizeBeforeLimit ==
    LET raw == cur.position_size
    IN  IF raw.t = "none" \/ (raw.t = "num" /\ raw.v <= 0)
        THEN CalculatePositionSize(loc.account_balance, loc.entry_price, loc.stop_loss,
                                   loc.leverage)
        ELSE ToFloat(raw)

NotionalTooHigh ==
    FGt(FMul(SizeBeforeLimit, loc.entry_price),
        FMul(R(loc.account_balance), MAX_POSITION_SIZE))

\* C27 (as the code has it): a quantity over the notional limit is scaled
\* down to 99% of the limit and the call goes on; the quantity is never
\* reduced for the loss limit: a call over the loss limit is refused before
\* any order, and no call over it reaches the entry order.
C27_ScaledOrRefused ==
    /\ pc \in {"entry", "stop_loss", "take_profit", "compensate"} =>
        /\ NotionalTooHigh =>
               loc.position_size =
                   FMul(FDiv(FMul(R(loc.account_balance), MAX_POSITION_SIZE), loc.entry_price),
                        ADJUST_FACTOR)
        /\ ~NotionalTooHigh => loc.position_size = SizeBeforeLimit
        /\ ~RiskTooHigh(PotentialLoss(cur.action, loc.position_size, loc.entry_price,
                                      loc.stop_loss), loc.account_balance)
    /\ (ReturnedFrom("execute_trade") /\ result.reason = "risk") =>
        ~result.success /\ ~OrderSent

\* A quantity over the notional limit was scaled down and the call has gone
\* on to the entry order.
C27_ScaledAndWentOn ==
    /\ pc = "entry"
    /\ NotionalTooHigh
    /\ FLt(loc.position_size, SizeBeforeLimit)

\* C27 as stated: execute_trade refuses no trade for its potential loss.
C27_NeverRefusedForLoss ==
    ReturnedFrom("execute_trade") => result.reason # "risk"

\* ------------------------------------------------- exchange adapter: server time
\* int(time.time() * 1000) at the moments the client reads its clock
LocalTimes == {1698, 1700, 1702}

\* data.get("serverTime", 0) of a /fapi/v1/time answer; 0 when the field is missing
ServerTimes == {0, 1695, 1700, 1705}

\* How the /fapi/v1/time call ends: a 200, another status, or an exception
\* (timeout, network error, a body that is not JSON).
SyncOutcomes == {"ok", "not_200", "exception"}

\* A signed request as it leaves the client.
SignedRequest(by, local_time, recv_window) ==
    [by |-> by, local |-> local_time, timestamp |-> local_time + client.time_offset,
     recvWindow |-> recv_window, synced |-> client.synced]

\* __aenter__ up to the first await of _validate_api_key: without a key or a
\* secret the validation returns at once, else it sends the signed account
\* request stamped int(time.time() * 1000) + self.time_offset.
Enter_Validate(has_keys, local_time) ==
    /\ client.pc = "none"
    /\ IF has_keys
       THEN /\ client' = [client EXCEPT !.pc = "validating"]
            /\ signed_sent' = signed_sent \cup {SignedRequest("validate", local_time, RECV_WINDOW)}
       ELSE /\ client' = [client EXCEPT !.pc = "syncing"]
            /\ UNCHANGED signed_sent

\* The validation is over, whatever the answers were: it raises nothing, and
\* __aenter__ goes on to _sync_server_time.
Enter_Validated ==
    /\ client.pc = "validating"
    /\ client' = [client EXCEPT !.pc = "syncing"]
    /\ UNCHANGED signed_sent

\* _sync_server_time: a 200 sets time_offset to serverTime minus the local
\* clock; any other end leaves time_offset as it is.
SyncServerTime(outcome, server_time, local_time) ==
    IF outcome = "ok"
    THEN [client EXCEPT !.time_offset = server_time - local_time,
                        !.synced = "done",
                        !.offset_writes = client.offset_writes + 1]
    ELSE [client EXCEPT !.synced = "failed"]

\* __aenter__ from the end of _sync_server_time on: it returns the client.
Enter_Synced(outcome, server_time, local_time) ==
    /\ client.pc = "syncing"
    /\ client' = [SyncServerTime(outcome, server_time, local_time) EXCEPT !.pc = "ready"]
    /\ UNCHANGED signed_sent

\* A signed _request of the entered client.
Client_Request(params, local_time) ==
    /\ client.pc = "ready"
    /\ LET recv_window == IF HasKey(params, "recvWindow")
                          THEN (CHOOSE x \in {params[i] : i \in DOMAIN params} : x.k = "recvWindow").v.v
                          ELSE RECV_WINDOW
       IN signed_sent' = signed_sent \cup {SignedRequest("request", local_time, recv_window)}
    /\ UNCHANGED client

NextClient ==
    \/ \E has_keys \in BOOLEAN, local_time \in LocalTimes :
          Enter_Validate(has_keys, local_time) /\ UNCHANGED restClient
    \/ Enter_Validated /\ UNCHANGED restClient
    \/ \E outcome \in SyncOutcomes, server_time \in ServerTimes, local_time \in LocalTimes :
          Enter_Synced(outcome, server_time, local_time) /\ UNCHANGED restClient
    \/ \E params \in ParamInputs, local_time \in LocalTimes :
          Client_Request(params, local_time) /\ UNCHANGED restClient

InitClient == CoreIdle /\ SideIdle

SpecClient == InitClient /\ [][NextClient]_vars

\* C30: every signed request is sent after the server-time offset has been
\* determined, by the /time call or as 0 when that call failed, and carries
\* the local clock plus that offset and recvWindow 5000; the offset is written
\* at most once; a failed time sync leaves the offset 0 and the client is
\* returned all the same.
C30_OffsetBeforeSigned ==
    /\ \A r \in signed_sent : r.synced # "not_yet" /\ r.recvWindow = RECV_WINDOW
    /\ client.pc = "ready" => \A r \in signed_sent : r.timestamp = r.local + client.time_offset
    /\ client.offset_writes <= 1
    /\ client.synced = "failed" => (client.time_offset = 0 /\ client.pc = "ready")

\* The same for the requests made through _request alone, the validation's
\* request set aside.
RequestsUseOffset ==
    /\ \A r \in signed_sent :
          r.by = "request" => /\ r.synced # "not_yet"
                              /\ r.recvWindow = RECV_WINDOW
                              /\ r.timestamp = r.local + client.time_offset
    /\ client.offset_writes <= 1
    /\ client.synced = "failed" => (client.time_offset = 0 /\ client.pc = "ready")

\* The validation's signed request went out before the time sync, and the
\* offset the sync then found is not the one it was stamped with.
ValidatedBeforeSync ==
    /\ client.pc = "ready"
    /\ client.synced = "done"
    /\ \E r \in signed_sent : /\ r.by = "validate"
                               /\ r.synced = "not_yet"
                               /\ r.timestamp # r.local + client.time_offset

\* ------------------------------------------- analyzer: concurrent mutators
MaxStoreAdds == 3

\* The list a mutator's save serialises: the analyzer's own list object, or
\* the object it was handed when the analyzer has since bound a new one.
DataOf(w) == IF writers[w].live THEN optimized_strategies ELSE writers[w].held

\* A file object writes its text at its own offset 0 into the file as it
\* is: what the file holds beyond the text's length stays, and the result is
\* one payload only when nothing stays.
Flush(text, file) ==
    IF Len(text) >= Len(file.payload) THEN Saved(text)
    ELSE [exists |-> TRUE, complete |-> FALSE, count |-> Len(text),
          payload |-> text \o SubSeq(file.payload, Len(text) + 1, Len(file.payload))]

\* import aiofiles succeeds or raises ImportError.
Import(has) ==
    /\ has_aiofiles = "unset"
    /\ has_aiofiles' = (IF has THEN "yes" ELSE "no")
    /\ UNCHANGED <<writers, contextVars>>

\* add_optimized_strategy / clear_optimized_strategies up to the await of
\* _save_context: the list is changed in memory and handed to
\* save_optimized_strategies. The trim binds a new list object; the data of
\* a save that has not serialised yet goes on referring to the old one.
Mutator_Begin(w, op) ==
    /\ has_aiofiles # "unset"
    /\ writers[w].pc = "idle"
    /\ op = "add" => context_added["strategy"] < MaxStoreAdds
    /\ LET appended == Append(optimized_strategies, context_added["strategy"] + 1)
           rebinds == op = "add" /\ Len(appended) > MAX_OPTIMIZED_STRATEGIES
       IN /\ optimized_strategies' = (IF op = "add"
                                      THEN KeepRecent(appended, MAX_OPTIMIZED_STRATEGIES)
                                      ELSE <<>>)
          /\ writers' = [v \in Writers |->
                            IF v = w THEN [NoWriter EXCEPT !.pc = "pending"]
                            ELSE IF rebinds /\ writers[v].live
                                    /\ writers[v].pc \in {"pending", "opened"}
                            THEN [writers[v] EXCEPT !.live = FALSE, !.held = appended]
                            ELSE writers[v]]
    /\ context_added' = [context_added EXCEPT !["strategy"] = IF op = "add" THEN @ + 1 ELSE @]
    /\ UNCHANGED <<has_aiofiles, review_knowledge, learning_results, context_files, saving>>

\* save_optimized_strategies with aiofiles: the file is opened for writing,
\* which empties it.
Writer_Open(w) ==
    /\ has_aiofiles = "yes"
    /\ writers[w].pc = "pending"
    /\ writers' = [writers EXCEPT ![w].pc = "opened"]
    /\ context_files' = [context_files EXCEPT !["strategy"] = Truncated]
    /\ UNCHANGED <<has_aiofiles, review_knowledge, optimized_strategies, learning_results,
                   context_added, saving>>

\* f.write(json.dumps(data)): the list is serialised as it is now; the file
\* object keeps the text in its buffer or, when the buffer is too small for
\* it, writes it through.
Writer_Write(w, through) ==
    /\ writers[w].pc = "opened"
    /\ IF through
       THEN /\ writers' = [writers EXCEPT ![w].pc = "flushed"]
            /\ context_files' = [context_files EXCEPT
                                    !["strategy"] = Flush(DataOf(w), context_files["strategy"])]
       ELSE /\ writers' = [writers EXCEPT ![w].pc = "written", ![w].buffer = DataOf(w)]
            /\ UNCHANGED context_files
    /\ UNCHANGED <<has_aiofiles, review_knowledge, optimized_strategies, learning_results,
                   context_added, saving>>

\* The file is closed: what the buffer holds is written; the mutator returns.
Writer_Close(w) ==
    /\ writers[w].pc \in {"written", "flushed"}
    /\ writers' = [writers EXCEPT ![w] = NoWriter]
    /\ context_files' = [context_files EXCEPT
                            !["strategy"] = IF writers[w].pc = "written"
                                            THEN Flush(writers[w].buffer, context_files["strategy"])
                                            ELSE @]
    /\ UNCHANGED <<has_aiofiles, review_knowledge, optimized_strategies, learning_results,
                   context_added, saving>>

\* save_optimized_strategies without aiofiles: open, json.dump and close
\* with no await in between; the mutator returns.
Writer_SaveSync(w) ==
    /\ has_aiofiles = "no"
    /\ writers[w].pc = "pending"
    /\ writers' = [writers EXCEPT ![w] = NoWriter]
    /\ context_files' = [context_files EXCEPT !["strategy"] = Saved(DataOf(w))]
    /\ UNCHANGED <<has_aiofiles, review_knowledge, optimized_strategies, learning_results,
                   context_added, saving>>

NextWriters ==
    \/ \E has \in BOOLEAN : Import(has) /\ UNCHANGED restWriter
    \/ \E w \in Writers, op \in {"add", "clear"} : Mutator_Begin(w, op) /\ UNCHANGED restWriter
    \/ \E w \in Writers : Writer_Open(w) /\ UNCHANGED restWriter
    \/ \E w \in Writers, through \in BOOLEAN : Writer_Write(w, through) /\ UNCHANGED restWriter
    \/ \E w \in Writers : Writer_Close(w) /\ UNCHANGED restWriter
    \/ \E w \in Writers : Writer_SaveSync(w) /\ UNCHANGED restWriter

InitWriters == CoreIdle /\ SideIdle

SpecWriters == InitWriters /\ [][NextWriters]_vars

\* The mutators whose save has the file open.
Writing == {w \in Writers : writers[w].pc \in {"opened", "written", "flushed"}}

\* No mutator is running.
NoneMutating == \A w \in Writers : writers[w].pc = "idle"

\* C31: the mutators of the context are serialised: no two of them have the
\* file open for writing at once, and once they have all returned the file
\* is one complete payload equal to the list in memory.
C31_MutatorsSerialized ==
    /\ Cardinality(Writing) <= 1
    /\ (NoneMutating /\ context_files["strategy"].exists)
           => /\ context_files["strategy"].complete
              /\ context_files["strategy"].payload = optimized_strategies

\* Without aiofiles a save has no await between its open and its close:
\* the claim's statement holds.
SerializedWithoutAiofiles == has_aiofiles = "no" => C31_MutatorsSerialized

\* Two mutators have returned and the file is not the list in memory.
FileNotTheList ==
    /\ NoneMutating
    /\ context_added["strategy"] >= 2
    /\ context_files["strategy"].exists
    /\ context_files["strategy"].payload # optimized_strategies

\* ------------------------------------------------- analyzer: first use
MaxFirstUseAdds == 4

\* The adds left to this model's processes taken together.
MayStillAdd(n) ==
    context_added["review"] + context_added["strategy"] + context_added["learning"] + n
        <= MaxFirstUseAdds

\* The process ends and a new MarketAnalyzer is constructed: empty lists, the
\* context not loaded, the files as the old process left them.
Process_Restart ==
    /\ review_knowledge' = <<>>
    /\ optimized_strategies' = <<>>
    /\ learning_results' = <<>>
    /\ context_loaded' = FALSE
    /\ unloaded_add' = FALSE
    /\ persisted' = [k \in ContextKinds |-> Loaded(context_files[k])]
    /\ UNCHANGED <<context_files, context_added, saving>>

\* analyze_market at its lazy load: the first call loads the files, and
\* _load_context replaces a list only by a payload that is not empty.
Analyze_LazyLoad ==
    /\ ~context_loaded
    /\ LET review == Loaded(context_files["review"])
           strategies == Loaded(context_files["strategy"])
           learning == Loaded(context_files["learning"])
       IN /\ review_knowledge' = (IF review # <<>> THEN review ELSE review_knowledge)
          /\ optimized_strategies' = (IF strategies # <<>> THEN strategies ELSE optimized_strategies)
          /\ learning_results' = (IF learning # <<>> THEN learning ELSE learning_results)
    /\ context_loaded' = TRUE
    /\ UNCHANGED <<context_files, context_added, saving, persisted, unloaded_add>>

\* A mutator of this process: it appends to the list as it is in memory
\* and saves; it does not look at _context_loaded.
FirstUse_Add(kind, derives) ==
    /\ MayStillAdd(IF kind = "review" /\ derives THEN 2 ELSE 1)
    /\ CASE kind = "review" -> AddReview(TRUE, derives)
         [] kind = "strategy" -> AddStrategy(TRUE)
         [] OTHER -> AddLearning(TRUE)
    /\ unloaded_add' = (unloaded_add \/ ~context_loaded)
    /\ UNCHANGED <<context_loaded, persisted>>

NextFirstUse ==
    \/ Process_Restart /\ UNCHANGED restProcess
    \/ Analyze_LazyLoad /\ UNCHANGED restProcess
    \/ \E kind \in ContextKinds, derives \in BOOLEAN :
          FirstUse_Add(kind, derives) /\ UNCHANGED restProcess

InitFirstUse == CoreIdle /\ SideIdle

SpecFirstUse == InitFirstUse /\ [][NextFirstUse]_vars

\* The cap of a list.
CapOf(kind) ==
    IF kind = "review" THEN MAX_REVIEW_KNOWLEDGE
    ELSE IF kind = "strategy" THEN MAX_OPTIMIZED_STRATEGIES
    ELSE MAX_LEARNING_RESULTS

\* Every entry that was on disk when the process started is on disk still,
\* unless the list is full and the entry older than the oldest one kept.
PersistedKept(kind) ==
    LET file == context_files[kind].payload
    IN \A i \in DOMAIN persisted[kind] :
          \/ \E j \in DOMAIN file : file[j] = persisted[kind][i]
          \/ Len(file) = CapOf(kind) /\ persisted[kind][i] < file[1]

\* C32: whatever the order of the first uses of a process, no entry that was
\* on disk at its start is lost, save by the eviction of a full list.
C32_NothingLost == \A kind \in ContextKinds : PersistedKept(kind)

\* As long as no entry was added before the lazy load, nothing is lost.
NothingLostOnceLoaded == ~unloaded_add => C32_NothingLost

\* A process added a learning result before its first analysis and the
\* file has lost the result an earlier process had stored.
LostByEarlyAdd ==
    /\ unloaded_add
    /\ persisted["learning"] = <<1>>
    /\ context_files["learning"].payload = <<2>>

\* ------------------------------------------------- analyzer: the ATR of the override
\* The values of an indicator map: an array of a container type, or a number.
ArrayOf(container, values) == [container |-> container, values |-> values]
Scalar(n) == [container |-> "float", values |-> <<PyNum(n)>>]

\* What calculate_atr returns: a numpy array, undefined over its warm-up.
EngineAtr(values) == ArrayOf("ndarray", values)

IndicatorValues ==
    {EngineAtr(<<PyNaN, PyNum(100)>>), EngineAtr(<<PyNaN>>), EngineAtr(<<PyNaN, PyNum(0)>>),
     ArrayOf("list", <<PyNaN, PyNum(100)>>), ArrayOf("list", <<>>), ArrayOf("tuple", <<PyNum(150)>>),
     Scalar(100), Scalar(0)}

\* Indicator maps: none, one entry, or an entry under each of two ATR keys.
IndicatorMaps ==
    {<<>>}
    \cup {[k \in {key} |-> v] : key \in {"atr", "ATR", "atr_14", "ema_20"}, v \in IndicatorValues}
    \cup {[k \in {"ATR", "atr"} |-> IF k = "ATR" THEN v ELSE w] :
             v \in {EngineAtr(<<PyNaN, PyNum(100)>>), Scalar(0)},
             w \in {ArrayOf("list", <<PyNaN, PyNum(100)>>), Scalar(100)}}

EntryPrices == {50000, 20000}

\* The keys _enhance_with_risk_management looks for, in its order.
ATR_KEYS == <<"ATR", "atr", "ATR_14", "atr_14">>

\* The value under the first ATR key the map has: the last item of a list or
\* a tuple that is not empty, an int or a float itself, else None.
LatestAtr(indicators) ==
    LET found == {i \in DOMAIN ATR_KEYS : ATR_KEYS[i] \in DOMAIN indicators}
    IN IF found = {} THEN PyNone
       ELSE LET first == CHOOSE i \in found : \A j \in found : i <= j
                atr_value == indicators[ATR_KEYS[first]]
            IN IF atr_value.container \in {"list", "tuple"} /\ Len(atr_value.values) > 0
               THEN atr_value.values[Len(atr_value.values)]
               ELSE IF atr_value.container \in {"int", "float"} THEN atr_value.values[1]
               ELSE PyNone

\* The call begins with a parsed result and the scanner's indicator map.
Risk_Begin(indicators, entry_price, action) ==
    /\ risk.pc = "idle"
    /\ risk' = [NoRisk EXCEPT !.pc = "begun", !.indicators = indicators,
                              !.entry_price = entry_price, !.action = action]

\* Step 1: the ATR is taken from the map, or estimated as 2% of the entry
\* price when none was taken or it is 0.
Risk_Atr ==
    /\ risk.pc = "begun"
    /\ LET atr == LatestAtr(risk.indicators)
       IN risk' = [risk EXCEPT
                      !.pc = "atr",
                      !.atr = IF atr.t = "none" \/ (atr.t = "num" /\ atr.v = 0)
                              THEN PyNum(AtrFor(risk.entry_price, NoAtr))
                              ELSE atr]

\* Step 2: the stop-loss from the ATR; a NaN ATR gives a NaN stop.
Risk_StopLoss ==
    /\ risk.pc = "atr"
    /\ risk' = [risk EXCEPT
                   !.pc = "done",
                   !.stop_loss = IF risk.atr.t = "nan" THEN PyNaN
                                 ELSE PyNum(calculate_stop_loss(risk.entry_price, risk.atr.v,
                                                                ATR_MULTIPLIER,
                                                                Position(risk.action)))]

NextRisk ==
    \/ \E indicators \in IndicatorMaps, entry_price \in EntryPrices,
          action \in {LONG_ACTION, SHORT_ACTION} :
          Risk_Begin(indicators, entry_price, action) /\ UNCHANGED restRisk
    \/ Risk_Atr /\ UNCHANGED restRisk
    \/ Risk_StopLoss /\ UNCHANGED restRisk

InitRisk == CoreIdle /\ SideIdle

SpecRisk == InitRisk /\ [][NextRisk]_vars

\* The map is one calculate_all produces: the ATR is a numpy array under "atr".
FromEngine(indicators) ==
    /\ DOMAIN indicators = {"atr"}
    /\ indicators["atr"].container = "ndarray"

\* The last value of the array under `key`, None when there is none.
LastOf(indicators, key) ==
    LET values == indicators[key].values
    IN IF values = <<>> THEN PyNone ELSE values[Len(values)]

\* C33: when the indicator map of the engine holds a defined latest ATR, the
\* stop-loss of the override is the entry price less (long) or plus (short)
\* ATR_MULTIPLIER times that ATR; the estimate of 2% of the entry price is not
\* used.
C33_StopFromEngineAtr ==
    (risk.pc = "done" /\ FromEngine(risk.indicators)
        /\ LastOf(risk.indicators, "atr").t = "num")
        => /\ risk.atr = LastOf(risk.indicators, "atr")
           /\ risk.stop_loss =
                 PyNum(calculate_stop_loss(risk.entry_price, LastOf(risk.indicators, "atr").v,
                                           ATR_MULTIPLIER, Position(risk.action)))

\* With the ATR as a list under "atr", a latest value that is defined and
\* not 0 is the one the stop-loss is computed from.
StopFromListAtr ==
    (risk.pc = "done" /\ DOMAIN risk.indicators = {"atr"}
        /\ risk.indicators["atr"].container = "list"
        /\ LastOf(risk.indicators, "atr").t = "num" /\ LastOf(risk.indicators, "atr").v # 0)
        => risk.atr = LastOf(risk.indicators, "atr")

\* The engine's map holds ATR = 100, the entry is 50000 long, and the stop is
\* 48000, from the estimate of 1000, where the ATR gives 49800.
EstimateDespiteAtr ==
    /\ risk.pc = "done"
    /\ risk.indicators = [k \in {"atr"} |-> EngineAtr(<<PyNaN, PyNum(100)>>)]
    /\ risk.entry_price = 50000
    /\ risk.action = LONG_ACTION
    /\ risk.atr = PyNum(1000)
    /\ risk.stop_loss = PyNum(48000)

\* ------------------------------------------------- time helpers: the next kline
\* TIMEFRAME_SECONDS of the units used here
TimeframeSeconds(unit) == IF unit = "m" THEN 60 ELSE 3600

\* parse_timeframe: the number times the seconds of the unit
parse_timeframe(timeframe) == timeframe[1] * TimeframeSeconds(timeframe[2])

\* "1m", "5m", "1h"
Timeframes == {<<1, "m">>, <<5, "m">>, <<1, "h">>}

\* Instants in milliseconds: on a boundary, a fraction of a second after
\* one, whole seconds within a period, just before a boundary.
Instants ==
    {0, 1, 500, 1000, 30000, 59000, 59999, 60000, 60500, 61000, 299000, 300000, 300250,
     3599000, 3600000, 3600999}

\* align_to_timeframe on the float timestamp, in milliseconds: floor is
\* (t // p) * p, ceil is ((t + p - 1) // p) * p with p in seconds.
align_to_timeframe(now, period_ms, direction) ==
    IF direction = "floor" THEN (now \div period_ms) * period_ms
    ELSE ((now + period_ms - 1000) \div period_ms) * period_ms

\* get_next_kline_time: the floor alignment plus one period
get_next_kline_time(now, period_ms) ==
    align_to_timeframe(now, period_ms, "floor") + period_ms

\* time_until_next_kline: the next kline's start less the instant
time_until_next_kline(now, period_ms) == get_next_kline_time(now, period_ms) - now

Time_Begin(timeframe, now) ==
    /\ kt.pc = "idle"
    /\ kt' = [NoKlineTime EXCEPT !.pc = "begun", !.now = now,
                                 !.period_ms = parse_timeframe(timeframe) * 1000]

Time_Align ==
    /\ kt.pc = "begun"
    /\ kt' = [kt EXCEPT !.pc = "aligned",
                        !.floor = align_to_timeframe(kt.now, kt.period_ms, "floor"),
                        !.ceil = align_to_timeframe(kt.now, kt.period_ms, "ceil")]

Time_Until ==
    /\ kt.pc = "aligned"
    /\ kt' = [kt EXCEPT !.pc = "done", !.until = time_until_next_kline(kt.now, kt.period_ms)]

NextTime ==
    \/ \E timeframe \in Timeframes, now \in Instants :
          Time_Begin(timeframe, now) /\ UNCHANGED restTime
    \/ Time_Align /\ UNCHANGED restTime
    \/ Time_Until /\ UNCHANGED restTime

InitTime == CoreIdle /\ SideIdle

SpecTime == InitTime /\ [][NextTime]_vars

\* b is the least period boundary that is not before the instant.
LeastBoundaryFrom(b, now, period_ms) ==
    /\ b % period_ms = 0
    /\ b >= now
    /\ b - now < period_ms

\* C34: the time until the next kline is the ceil alignment of the instant
\* less the instant, the ceil alignment being the least period boundary not
\* before the instant; it is 0 for an instant on a boundary.
C34_UntilIsCeilLessNow ==
    kt.pc = "done"
        => /\ kt.until = kt.ceil - kt.now
           /\ LeastBoundaryFrom(kt.ceil, kt.now, kt.period_ms)
           /\ kt.now % kt.period_ms = 0 => kt.until = 0

\* What holds: the time until the next kline is the floor alignment plus one
\* period less the instant, more than 0 and at most one period; and for an
\* instant of whole seconds the ceil alignment is the least boundary not
\* before it.
UntilIsNextStartLessNow ==
    kt.pc = "done"
        => /\ kt.until = kt.floor + kt.period_ms - kt.now
           /\ kt.until > 0 /\ kt.until <= kt.period_ms
           /\ kt.floor % kt.period_ms = 0 /\ kt.floor <= kt.now
           /\ kt.now % 1000 = 0 => LeastBoundaryFrom(kt.ceil, kt.now, kt.period_ms)

\* On a boundary the time until the next kline is a whole period.
WholePeriodOnBoundary ==
    /\ kt.pc = "done"
    /\ kt.now = 60000 /\ kt.period_ms = 60000
    /\ kt.until = 60000

\* Half a second after a boundary the ceil alignment is that boundary,
\* before the instant.
CeilBeforeNow ==
    /\ kt.pc = "done"
    /\ kt.now = 60500 /\ kt.period_ms = 60000
    /\ kt.ceil = 60000

\* ------------------------------------------------- scanner: universe selection
MaxTopN == 2

DOGE == <<"D", "O", "G", "E">>

\* platform.get_symbols(): the live perpetual list
LiveSymbols == <<BTC \o USDT, ETH \o USDT, BTC \o USDC>>

\* CUSTOM_SYMBOLS_RAW split at its commas
CustomInputs ==
    {<<>>, <<BTC \o USDT>>, <<<<"b", "t", "c">>>>, <<DOGE \o USDT>>, <<DOGE>>,
     <<DOGE \o USDT, ETH \o USDT>>, <<BTC, BTC \o USDT>>, <<ETH \o USDT, ETH \o USDT>>}

\* SCAN_TYPES split at its commas
ScanTypeInputs == {<<"hot">>, <<"hot", "volume">>, <<"volume", "hot">>, <<"gainers", "losers">>}

\* The live tickers as each ranking sorts them.
RankingInputs ==
    {[hot |-> <<BTC \o USDT, ETH \o USDT, BTC \o USDC>>,
      volume |-> v,
      gainers |-> g,
      losers |-> <<g[3], g[2], g[1]>>] :
        v \in {<<BTC \o USDT, BTC \o USDC, ETH \o USDT>>, <<ETH \o USDT, BTC \o USDT, BTC \o USDC>>},
        g \in {<<BTC \o USDC, ETH \o USDT, BTC \o USDT>>, <<ETH \o USDT, BTC \o USDC, BTC \o USDT>>}}

\* parse_custom_symbols: an entry that parses is normalized, another is upper-cased
ParseCustomSymbols(items) ==
    [i \in DOMAIN items |->
        IF Parse(Strip(items[i])).ok THEN Normalize(Strip(items[i])) ELSE Upper(Strip(items[i]))]

\* smart_search
SmartSearch(input_str, symbols, default_quote) ==
    LET text == Strip(Upper(input_str))
    IN IF Validate(text) THEN SearchAsPair(text, symbols)
       ELSE SearchAsCurrency(text, symbols, default_quote)

\* What one custom entry contributes: itself when it is listed, else what
\* smart_search finds for it.
Completion(symbol, all_exchange_symbols) ==
    IF symbol \in Elements(all_exchange_symbols) THEN <<symbol>>
    ELSE SmartSearch(symbol, all_exchange_symbols, DEFAULT_QUOTE)

RECURSIVE ValidSymbols(_, _)
ValidSymbols(custom_list, all_exchange_symbols) ==
    IF custom_list = <<>> THEN <<>>
    ELSE Completion(Head(custom_list), all_exchange_symbols)
         \o ValidSymbols(Tail(custom_list), all_exchange_symbols)

RECURSIVE Dedup(_)
\* list(dict.fromkeys(items)): the first occurrence of each item, in order
Dedup(items) ==
    IF items = <<>> THEN <<>>
    ELSE LET front == Dedup(SubSeq(items, 1, Len(items) - 1))
             last == items[Len(items)]
         IN IF last \in Elements(front) THEN front ELSE Append(front, last)

\* sorted_tickers[:top_n]
Top(order, top_n) == SubSeq(order, 1, Min(top_n, Len(order)))

RECURSIVE AllTickers(_, _, _)
\* The top lists of the scan types, one after the other.
AllTickers(scan_types, rankings, top_n) ==
    IF scan_types = <<>> THEN <<>>
    ELSE Top(rankings[Head(scan_types)], top_n) \o AllTickers(Tail(scan_types), rankings, top_n)

Scan_Begin(custom, scan_types, top_n, rankings) ==
    /\ sel.pc = "idle"
    /\ sel' = [NoSelection EXCEPT !.pc = "called", !.custom = custom, !.scan_types = scan_types,
                                  !.top_n = top_n, !.rankings = rankings]

\* The custom branch: it returns the listed and completed entries when the
\* setting is not empty, the parsed list is not empty and something of it
\* is valid; in every other case the function goes on to the scan types.
Scan_Custom ==
    /\ sel.pc = "called"
    /\ LET custom_list == ParseCustomSymbols(sel.custom)
           valid_symbols == ValidSymbols(custom_list, LiveSymbols)
       IN IF sel.custom # <<>> /\ custom_list # <<>> /\ valid_symbols # <<>>
          THEN sel' = [sel EXCEPT !.pc = "returned", !.symbols = Dedup(valid_symbols),
                                  !.via = "custom"]
          ELSE sel' = [sel EXCEPT !.pc = "ranking"]

\* The scan types: the top lists joined, the first occurrence of each symbol
\* kept, the first SCAN_TOP_N of them returned.
Scan_Ranked ==
    /\ sel.pc = "ranking"
    /\ LET unique_tickers == Dedup(AllTickers(sel.scan_types, sel.rankings, sel.top_n))
       IN sel' = [sel EXCEPT !.pc = "returned", !.symbols = Top(unique_tickers, sel.top_n),
                               !.via = "ranked"]

NextSelect ==
    \/ \E custom \in CustomInputs, scan_types \in ScanTypeInputs, top_n \in 1..MaxTopN,
          rankings \in RankingInputs :
          Scan_Begin(custom, scan_types, top_n, rankings) /\ UNCHANGED restSelect
    \/ Scan_Custom /\ UNCHANGED restSelect
    \/ Scan_Ranked /\ UNCHANGED restSelect

InitSelect == CoreIdle /\ SideIdle

SpecSelect == InitSelect /\ [][NextSelect]_vars

NoDuplicates(items) == \A i, j \in DOMAIN items : items[i] = items[j] => i = j

\* The symbols of the top lists of the call's scan types.
Ranked ==
    UNION {Elements(Top(sel.rankings[sel.scan_types[i]], sel.top_n)) : i \in DOMAIN sel.scan_types}

\* The returned symbols are custom entries or their completions, all listed.
OnlyCustom ==
    /\ sel.via = "custom"
    /\ NoDuplicates(sel.symbols)
    /\ \A s \in Elements(sel.symbols) :
          /\ s \in Elements(LiveSymbols)
          /\ \E i \in DOMAIN sel.custom :
                s \in Elements(Completion(ParseCustomSymbols(sel.custom)[i], LiveSymbols))

\* The returned symbols are the union of the top lists in the order of the
\* scan types, first occurrences only, cut at SCAN_TOP_N.
RankedUnion ==
    /\ sel.via = "ranked"
    /\ NoDuplicates(sel.symbols)
    /\ Len(sel.symbols) <= sel.top_n
    /\ Elements(sel.symbols) \subseteq Ranked
    /\ Len(sel.symbols) < sel.top_n => Elements(sel.symbols) = Ranked
    /\ sel.symbols # <<>> /\ sel.symbols[1] = sel.rankings[sel.scan_types[1]][1]

\* C35: with a custom setting that is not empty the universe holds only
\* listed custom entries and their completions and no ranked symbol is added;
\* with an empty one it is the union of the top lists in type order, first
\* occurrences only, at most SCAN_TOP_N symbols.
C35_UniverseSelection ==
    sel.pc = "returned" => IF sel.custom # <<>> THEN OnlyCustom ELSE RankedUnion

\* The same, but for a custom setting none of whose entries is listed or
\* completes: then the universe is the ranked one.
CustomUnlessAllUnknown ==
    sel.pc = "returned"
        => IF ValidSymbols(ParseCustomSymbols(sel.custom), LiveSymbols) # <<>>
           THEN OnlyCustom ELSE RankedUnion

\* The only custom entry is not listed and the universe is the ranked one.
RankedDespiteCustom ==
    /\ sel.pc = "returned"
    /\ sel.custom = <<DOGE \o USDT>>
    /\ sel.via = "ranked"
    /\ sel.symbols # <<>>

\* ------------------------------------------------- Trader: concurrent execute_trade
\* The call leaves with its result.
Returns(t, outcome) == [racers[t] EXCEPT !.pc = "returned", !.outcome = outcome]

\* execute_trade up to its first await, the position query of step 2.2.
Race_Call(t) ==
    /\ racers[t].pc = "idle"
    /\ racers' = [racers EXCEPT ![t] = [NoRacer EXCEPT !.pc = "check", !.late = position_open]]
    /\ UNCHANGED <<cached, position_open, closed>>

\* Step 2.2 answers: an open position is cached and the call refused; else
\* the call goes on, through the double check of 2.3 when the symbol is cached.
Race_Checked(t) ==
    /\ racers[t].pc = "check"
    /\ IF position_open
       THEN /\ racers' = [racers EXCEPT ![t] = Returns(t, "duplicate")]
            /\ cached' = TRUE
       ELSE /\ racers' = [racers EXCEPT ![t].pc = IF cached THEN "double_check" ELSE "configure"]
            /\ UNCHANGED cached
    /\ UNCHANGED <<position_open, closed>>

\* Step 2.3 answers: an open position refuses the call, none clears the cache.
Race_DoubleChecked(t) ==
    /\ racers[t].pc = "double_check"
    /\ IF position_open
       THEN /\ racers' = [racers EXCEPT ![t] = Returns(t, "duplicate")]
            /\ UNCHANGED cached
       ELSE /\ racers' = [racers EXCEPT ![t].pc = "configure"]
            /\ cached' = FALSE
    /\ UNCHANGED <<position_open, closed>>

\* Step 4: the leverage and the margin type are set.
Race_Configured(t) ==
    /\ racers[t].pc = "configure"
    /\ racers' = [racers EXCEPT ![t].pc = "balance"]
    /\ UNCHANGED <<cached, position_open, closed>>

\* Step 6 answers; steps 7 and 8.1 follow with no await: the position is
\* sized and the entry order sent, or the sizing refuses the trade.
Race_Balanced(t, sized) ==
    /\ racers[t].pc = "balance"
    /\ IF sized
       THEN racers' = [racers EXCEPT ![t].pc = "entry", ![t].sent_entry = TRUE]
       ELSE racers' = [racers EXCEPT ![t] = Returns(t, "refused")]
    /\ UNCHANGED <<cached, position_open, closed>>

\* The entry order is answered: filled, and the position is open, or failed.
Race_Entered(t, ok) ==
    /\ racers[t].pc = "entry"
    /\ IF ok
       THEN /\ racers' = [racers EXCEPT ![t].pc = "protect"]
            /\ position_open' = TRUE
       ELSE /\ racers' = [racers EXCEPT ![t] = Returns(t, "entry_failed")]
            /\ UNCHANGED position_open
    /\ UNCHANGED <<cached, closed>>

\* Steps 8.2 to 9: the protective orders are placed and the position cached.
Race_Protected(t) ==
    /\ racers[t].pc = "protect"
    /\ racers' = [racers EXCEPT ![t] = Returns(t, "success")]
    /\ cached' = TRUE
    /\ UNCHANGED <<position_open, closed>>

\* The exchange closes the position (its stop or its target is hit); the
\* Trader's cache is not told.
Position_Closed ==
    /\ position_open
    /\ position_open' = FALSE
    /\ closed' = TRUE
    /\ UNCHANGED <<racers, cached>>

NextRace ==
    \/ \E t \in Calls : Race_Call(t) /\ UNCHANGED restRace
    \/ \E t \in Calls : Race_Checked(t) /\ UNCHANGED restRace
    \/ \E t \in Calls : Race_DoubleChecked(t) /\ UNCHANGED restRace
    \/ \E t \in Calls : Race_Configured(t) /\ UNCHANGED restRace
    \/ \E t \in Calls, sized \in BOOLEAN : Race_Balanced(t, sized) /\ UNCHANGED restRace
    \/ \E t \in Calls, ok \in BOOLEAN : Race_Entered(t, ok) /\ UNCHANGED restRace
    \/ \E t \in Calls : Race_Protected(t) /\ UNCHANGED restRace
    \/ Position_Closed /\ UNCHANGED restRace

InitRace == CoreIdle /\ SideIdle

SpecRace == InitRace /\ [][NextRace]_vars

\* The calls that have sent an entry order.
Entrants == {t \in Calls : racers[t].sent_entry}

\* C36: of the execute_trade calls running concurrently for one symbol
\* from no position and an empty cache, as long as no position was closed,
\* at most one sends an entry order, and once one has, every other call
\* that has returned was refused.
C36_OneEntryPerSymbol ==
    ~closed =>
    /\ Cardinality(Entrants) <= 1
    /\ \A t, u \in Calls :
          (t # u /\ racers[t].sent_entry /\ racers[t].outcome \in {"none", "success"}
              /\ racers[u].pc = "returned")
            => racers[u].outcome \in {"duplicate", "refused"}

\* A call made once the position is open sends no entry order, as long as
\* the position stays open.
LateCallRefused == ~closed => \A t \in Calls : racers[t].late => ~racers[t].sent_entry

\* Both calls have opened the position.
BothEntered ==
    /\ ~closed
    /\ \A t \in Calls : racers[t].outcome = "success" /\ racers[t].sent_entry


\* ------------------------------------------- auto scan: start during a stop
\* The loop tasks that have not finished.
ActiveLoops == {t \in LoopTasks : loops[t].pc \in {"created", "awaiting"}}

\* The stop_auto_scan calls that await a loop task.
AwaitingStoppers == {s \in Stoppers : stoppers[s].pc = "awaiting"}

\* start_auto_scan: nothing when the flag is set; else it sets the flag and
\* stores a new loop task in _auto_scan_task, whatever task is stored there.
Restart_Start ==
    /\ ~scanner.is_scanning
    /\ \E t \in LoopTasks :
          /\ loops[t].pc = "none"
          /\ \A u \in LoopTasks : u < t => loops[u].pc # "none"
          /\ scanner' = [is_scanning |-> TRUE, auto_scan_task |-> t, started |-> t,
                         stopped_since |-> FALSE,
                         during_stop |-> (scanner.during_stop \/ AwaitingStoppers # {})]
          /\ loops' = [loops EXCEPT ![t].pc = "created"]
    /\ UNCHANGED stoppers

\* _auto_scan_loop at `while self._is_scanning`, on its first step or after an
\* await of its body: the next batch begins, or the loop leaves through its
\* finally clause, which clears the flag.
Restart_LoopWhile(t) ==
    /\ loops[t].pc \in {"created", "awaiting"}
    /\ ~loops[t].must_cancel
    /\ IF scanner.is_scanning
       THEN /\ loops' = [loops EXCEPT ![t].pc = "awaiting"]
            /\ UNCHANGED scanner
       ELSE /\ loops' = [loops EXCEPT ![t].pc = "ended"]
            /\ scanner' = [scanner EXCEPT !.is_scanning = FALSE]
    /\ UNCHANGED stoppers

\* The cancellation reaches a loop task. A task that has not taken its first
\* step ends without running any of its code; at an await CancelledError
\* unwinds to the finally clause, which clears the flag, unless a handler
\* inside the callback swallows it and the loop goes on.
Restart_LoopCancelled(t, swallowed) ==
    /\ loops[t].pc \in {"created", "awaiting"}
    /\ loops[t].must_cancel
    /\ IF loops[t].pc = "created"
       THEN /\ ~swallowed
            /\ loops' = [loops EXCEPT ![t] = [pc |-> "ended", must_cancel |-> FALSE]]
            /\ UNCHANGED scanner
       ELSE IF swallowed
       THEN /\ loops' = [loops EXCEPT ![t].must_cancel = FALSE]
            /\ UNCHANGED scanner
       ELSE /\ loops' = [loops EXCEPT ![t] = [pc |-> "ended", must_cancel |-> FALSE]]
            /\ scanner' = [scanner EXCEPT !.is_scanning = FALSE]
    /\ UNCHANGED stoppers

\* stop_auto_scan up to its await: it returns at once when the flag is clear;
\* else it clears the flag, cancels the stored task and awaits it. The await
\* of a task that is done does not suspend.
Restart_Stop(s) ==
    /\ stoppers[s].pc = "idle"
    /\ LET t == scanner.auto_scan_task
       IN IF ~scanner.is_scanning
          THEN /\ stoppers' = [stoppers EXCEPT ![s].pc = "returned"]
               /\ scanner' = [scanner EXCEPT !.stopped_since = TRUE]
               /\ UNCHANGED loops
          ELSE IF t = NoLoopTask
          THEN /\ stoppers' = [stoppers EXCEPT ![s].pc = "returned"]
               /\ scanner' = [scanner EXCEPT !.is_scanning = FALSE, !.stopped_since = TRUE]
               /\ UNCHANGED loops
          ELSE IF loops[t].pc = "ended"
          THEN /\ stoppers' = [stoppers EXCEPT ![s].pc = "returned"]
               /\ scanner' = [scanner EXCEPT !.is_scanning = FALSE, !.stopped_since = TRUE,
                                             !.auto_scan_task = NoLoopTask]
               /\ UNCHANGED loops
          ELSE /\ stoppers' = [stoppers EXCEPT ![s] = [pc |-> "awaiting", task |-> t]]
               /\ scanner' = [scanner EXCEPT !.is_scanning = FALSE, !.stopped_since = TRUE]
               /\ loops' = [loops EXCEPT ![t].must_cancel = TRUE]

\* stop_auto_scan from the end of the task it awaits on: it clears
\* _auto_scan_task, whatever task is stored there by now.
Restart_StopReturn(s) ==
    /\ stoppers[s].pc = "awaiting"
    /\ loops[stoppers[s].task].pc = "ended"
    /\ stoppers' = [stoppers EXCEPT ![s].pc = "returned"]
    /\ scanner' = [scanner EXCEPT !.auto_scan_task = NoLoopTask]
    /\ UNCHANGED loops

NextRestart ==
    \/ Restart_Start /\ UNCHANGED restRestart
    \/ \E t \in LoopTasks : Restart_LoopWhile(t) /\ UNCHANGED restRestart
    \/ \E t \in LoopTasks, swallowed \in BOOLEAN :
          Restart_LoopCancelled(t, swallowed) /\ UNCHANGED restRestart
    \/ \E s \in Stoppers : Restart_Stop(s) /\ UNCHANGED restRestart
    \/ \E s \in Stoppers : Restart_StopReturn(s) /\ UNCHANGED restRestart

InitRestart == CoreIdle /\ SideIdle

SpecRestart == InitRestart /\ [][NextRestart]_vars

\* At most one loop task; while no stop_auto_scan is awaiting, the flag is
\* true exactly when a loop task is active and _auto_scan_task is that task;
\* and the loop of the last effective start_auto_scan is active with the flag
\* true as long as stop_auto_scan has not been called since.
OneLoopKept ==
    /\ Cardinality(ActiveLoops) <= 1
    /\ AwaitingStoppers = {} =>
          /\ scanner.is_scanning <=> ActiveLoops # {}
          /\ scanner.is_scanning => scanner.auto_scan_task \in ActiveLoops
    /\ (scanner.started # NoLoopTask /\ ~scanner.stopped_since) =>
          /\ scanner.is_scanning
          /\ scanner.started \in ActiveLoops
          /\ scanner.auto_scan_task = scanner.started

\* C37: for every interleaving of start_auto_scan and stop_auto_scan calls, a
\* start_auto_scan issued while a stop_auto_scan awaits the cancelled loop
\* included, at most one loop task exists at a time, the flag is true exactly
\* while a loop task is active, the scanner refers to the active task, and
\* the loop of a start_auto_scan that was not a no-op keeps scanning until a
\* later stop_auto_scan.
C37_OneLoopPerScanner == OneLoopKept

\* The same for the interleavings in which no start_auto_scan runs while a
\* stop_auto_scan is awaiting the loop it has cancelled.
OneLoopUnlessStartedDuringStop == ~scanner.during_stop => OneLoopKept

\* A start_auto_scan ran while stop_auto_scan was awaiting; every
\* stop_auto_scan has returned, none has been called since the last effective
\* start_auto_scan, and the loop that start created has ended with the flag
\* clear.
RestartedLoopGone ==
    /\ scanner.during_stop
    /\ ~scanner.stopped_since
    /\ AwaitingStoppers = {}
    /\ loops[scanner.started].pc = "ended"
    /\ ~scanner.is_scanning


\* -------------------------------------------------- indicators: detect_cross
\* A position of the two lines: the fast value beside a slow value of 2, or
\* one of the two undefined.
LinePoints == {<<R(1), R(2)>>, <<R(2), R(2)>>, <<R(3), R(2)>>, <<NaN, R(2)>>, <<R(2), NaN>>}
LinePairs == UNION {[1..n -> LinePoints] : n \in 0..MaxLine}

\* The positions at which both lines are defined, in order:
\* ~(np.isnan(fast_line) | np.isnan(slow_line)).
RECURSIVE ValidIdx(_, _, _)
ValidIdx(fast_line, slow_line, n) ==
    IF n = 0 THEN <<>>
    ELSE LET before == ValidIdx(fast_line, slow_line, n - 1)
         IN IF IsNaN(fast_line[n]) \/ IsNaN(slow_line[n]) THEN before ELSE Append(before, n)

\* fast_valid - slow_valid
Diff(fast_line, slow_line) ==
    LET valid_idx == ValidIdx(fast_line, slow_line, Len(fast_line))
    IN [k \in 1..Len(valid_idx) |-> FSub(fast_line[valid_idx[k]], slow_line[valid_idx[k]])]

IsGolden(diff, k) == FLt(diff[k - 1], R(0)) /\ FGt(diff[k], R(0))
IsDeath(diff, k) == FGt(diff[k - 1], R(0)) /\ FLt(diff[k], R(0))

\* The loop over range(1, len(diff)) up to position n of diff: the indices,
\* counted from 0 as Python counts them, of the golden or of the death crosses.
RECURSIVE Crosses(_, _, _)
Crosses(diff, n, golden) ==
    IF n < 2 THEN <<>>
    ELSE LET before == Crosses(diff, n - 1, golden)
         IN IF IsGolden(diff, n) THEN (IF golden THEN Append(before, n - 1) ELSE before)
            ELSE IF IsDeath(diff, n) THEN (IF golden THEN before ELSE Append(before, n - 1))
            ELSE before

LastOr(list, default) == IF list = <<>> THEN default ELSE list[Len(list)]

detect_cross(fast_line, slow_line) ==
    LET diff == Diff(fast_line, slow_line)
        golden_crosses == Crosses(diff, Len(diff), TRUE)
        death_crosses == Crosses(diff, Len(diff), FALSE)
        last_golden == LastOr(golden_crosses, -1)
        last_death == LastOr(death_crosses, -1)
        crossed == golden_crosses # <<>> \/ death_crosses # <<>>
    IN IF Len(diff) < 2
       THEN [latest_cross |-> "None", cross_index |-> -1, golden_crosses |-> <<>>,
             death_crosses |-> <<>>, current_position |-> "missing"]
       ELSE [latest_cross |-> IF ~crossed THEN "None"
                              ELSE IF last_golden > last_death THEN "golden" ELSE "death",
             cross_index |-> IF ~crossed THEN -1
                             ELSE IF last_golden > last_death THEN last_golden ELSE last_death,
             golden_crosses |-> golden_crosses,
             death_crosses |-> death_crosses,
             current_position |-> IF FGt(diff[Len(diff)], R(0)) THEN "above" ELSE "below"]

\* detect_cross is called with two lines of one length.
Cross_Begin(lines) ==
    /\ cross.pc = "idle"
    /\ cross' = [cross EXCEPT !.pc = "called",
                              !.fast_line = [i \in DOMAIN lines |-> lines[i][1]],
                              !.slow_line = [i \in DOMAIN lines |-> lines[i][2]]]

Cross_Detect ==
    /\ cross.pc = "called"
    /\ cross' = [cross EXCEPT !.pc = "returned",
                              !.out = detect_cross(cross.fast_line, cross.slow_line)]

NextCross ==
    \/ \E lines \in LinePairs : Cross_Begin(lines) /\ UNCHANGED restCross
    \/ Cross_Detect /\ UNCHANGED restCross

InitCross == CoreIdle /\ SideIdle

SpecCross == InitCross /\ [][NextCross]_vars

Items(list) == {list[i] : i \in DOMAIN list}

\* Between two crosses of one kind there is a cross of the other kind.
Alternate(these, others) ==
    \A i, j \in Items(these) : i < j => \E k \in Items(others) : i < k /\ k < j

Detected == cross.pc = "returned" /\ cross.out.current_position # "missing"

CrossesConsistent ==
    /\ Alternate(cross.out.golden_crosses, cross.out.death_crosses)
    /\ Alternate(cross.out.death_crosses, cross.out.golden_crosses)
    /\ cross.out.latest_cross = "golden" => cross.out.current_position = "above"
    /\ cross.out.latest_cross = "death" => cross.out.current_position = "below"

\* The two lines are equal at some position where both are defined.
Touch ==
    \E i \in DOMAIN cross.fast_line : FEq(cross.fast_line[i], cross.slow_line[i])

\* C38: whatever the two lines, equal values at some positions included, the
\* golden and the death crosses detect_cross returns alternate strictly in
\* index order, the position is above when the latest cross is golden and
\* below when it is death.
C38_CrossesSelfConsistent == Detected => CrossesConsistent

\* The same for lines that are equal at no position.
ConsistentWithoutTouch == (Detected /\ ~Touch) => CrossesConsistent

\* The latest cross is golden and the fast line ends below the slow line.
GoldenButBelow ==
    /\ Detected
    /\ cross.out.latest_cross = "golden"
    /\ cross.out.current_position = "below"
    /\ FLt(cross.fast_line[Len(cross.fast_line)], cross.slow_line[Len(cross.slow_line)])

\* Two death crosses with no golden cross between them.
TwoDeathsInARow ==
    /\ Detected
    /\ ~Alternate(cross.out.death_crosses, cross.out.golden_crosses)


\* ------------------------------------------ trader: what execute_trade raises
\* The steps of execute_trade in the order it takes them; the position query
\* stands for both _check_existing_position calls.
TradeSteps ==
    <<"signal", "get_position", "params", "set_leverage", "set_margin_type", "get_balance",
      "size", "entry", "stop_loss", "take_profit", "update_cache">>

\* The steps that can refuse the trade without an exception.
RefusingSteps == {"signal", "get_position", "params", "set_margin_type", "size"}

\* What a step raises: an exception, one of its subclasses or a cancellation.
Raised == {"Exception", "CancelledError"} \cup ErrorClasses

OuterHandler == [catches |-> "Exception", then |-> "fail_result"]

\* An execute_trade without the try of line 81 and its handler of line 421.
TradeHandlers_Unguarded(at) ==
    CASE at = "get_position" -> <<[catches |-> "Exception", then |-> "return_none"]>>
      [] at \in {"params", "size"} -> <<[catches |-> "ValueError", then |-> "fail_result"],
                                        [catches |-> "TypeError", then |-> "fail_result"]>>
      [] at \in {"set_leverage", "set_margin_type"} -> <<[catches |-> "Exception", then |-> "log"]>>
      [] at = "get_balance" -> <<[catches |-> "Exception", then |-> "default_balance"]>>
      [] at = "entry" -> <<[catches |-> "Exception", then |-> "fail_result"]>>
      [] at = "stop_loss" -> <<[catches |-> "Exception", then |-> "close_position"]>>
      [] at = "close" -> <<[catches |-> "Exception", then |-> "fail_dict"],
                           [catches |-> "Exception", then |-> "log"]>>
      [] at = "take_profit" -> <<[catches |-> "Exception", then |-> "tolerate"]>>
      [] OTHER -> <<>>

\* The except clauses around each step of execute_trade, innermost first; the
\* compensating close runs inside the handler of the stop-loss order.
TradeHandlers(at) ==
    CASE at = "get_position" -> <<[catches |-> "Exception", then |-> "return_none"], OuterHandler>>
      [] at \in {"params", "size"} -> <<[catches |-> "ValueError", then |-> "fail_result"],
                                        [catches |-> "TypeError", then |-> "fail_result"],
                                        OuterHandler>>
      [] at \in {"set_leverage", "set_margin_type"} ->
            <<[catches |-> "Exception", then |-> "log"], OuterHandler>>
      [] at = "get_balance" -> <<[catches |-> "Exception", then |-> "default_balance"],
                                 OuterHandler>>
      [] at = "entry" -> <<[catches |-> "Exception", then |-> "fail_result"], OuterHandler>>
      [] at = "stop_loss" -> <<[catches |-> "Exception", then |-> "close_position"],
                               OuterHandler>>
      [] at = "close" -> <<[catches |-> "Exception", then |-> "fail_dict"],
                           [catches |-> "Exception", then |-> "log"], OuterHandler>>
      [] at = "take_profit" -> <<[catches |-> "Exception", then |-> "tolerate"], OuterHandler>>
      [] OTHER -> <<OuterHandler>>

\* The step after `at`, or the return of the success record.
StepAfter(at) ==
    IF at = "update_cache" THEN "returned"
    ELSE LET i == CHOOSE k \in DOMAIN TradeSteps : TradeSteps[k] = at IN TradeSteps[i + 1]

SwallowedKind(at) == IF at = "take_profit" THEN "take_profit" ELSE "setup"

\* scan_callback reaches its loop with the tradable results of the scan.
TradeLoop_Begin(n) ==
    /\ trade_loop.pc = "idle"
    /\ trade_loop' = [NoTradeLoop EXCEPT !.pc = "looping", !.trades = n]
    /\ guard' = NoGuard

\* The loop awaits execute_trade for its next result, or is through.
TradeLoop_Call ==
    /\ trade_loop.pc = "looping"
    /\ guard.pc = "idle"
    /\ IF Len(trade_loop.results) < trade_loop.trades
       THEN /\ guard' = [NoGuard EXCEPT !.pc = "signal"]
            /\ UNCHANGED trade_loop
       ELSE /\ trade_loop' = [trade_loop EXCEPT !.pc = "done"]
            /\ UNCHANGED guard

\* A step of execute_trade ends: it goes on, it refuses the trade, or it
\* raises and the exception unwinds through the handlers around the step.
Guard_Step(outcome) ==
    /\ guard.pc \in {TradeSteps[i] : i \in DOMAIN TradeSteps} \cup {"close"}
    /\ outcome = "refuse" => guard.pc \in RefusingSteps
    /\ LET at == guard.pc
           does == Unwind(TradeHandlers(at), outcome)
       IN IF outcome = "ok"
          THEN /\ guard' = IF at = "close"
                           THEN [guard EXCEPT !.pc = "returned", !.out = "failure"]
                           ELSE [guard EXCEPT !.pc = StepAfter(at),
                                              !.out = IF at = "update_cache" THEN "success"
                                                      ELSE "none"]
               /\ UNCHANGED trade_loop
          ELSE IF outcome = "refuse"
          THEN /\ guard' = [guard EXCEPT !.pc = "returned", !.out = "failure"]
               /\ UNCHANGED trade_loop
          ELSE IF does = "propagate"
          THEN /\ guard' = [guard EXCEPT !.pc = "propagated", !.failed_at = at]
               /\ trade_loop' = [trade_loop EXCEPT !.cancelled = (outcome = "CancelledError")]
          ELSE IF does \in {"fail_result", "fail_dict"}
          THEN /\ guard' = [guard EXCEPT !.pc = "returned", !.out = "failure",
                                         !.failed_at = IF at = "close" THEN @ ELSE at]
               /\ UNCHANGED trade_loop
          ELSE IF does = "close_position"
          THEN /\ guard' = [guard EXCEPT !.pc = "close", !.failed_at = at]
               /\ UNCHANGED trade_loop
          ELSE /\ guard' = [guard EXCEPT !.pc = StepAfter(at),
                                         !.swallowed = @ \cup {SwallowedKind(at)}]
               /\ UNCHANGED trade_loop

\* execute_trade has returned: the loop counts the result and goes on.
TradeLoop_Returned ==
    /\ trade_loop.pc = "looping"
    /\ guard.pc = "returned"
    /\ trade_loop' = [trade_loop EXCEPT
                         !.results = Append(@, [out |-> guard.out, failed_at |-> guard.failed_at])]
    /\ guard' = NoGuard

\* The exception leaves execute_trade and, with no handler in the loop, the
\* loop and scan_callback.
TradeLoop_Raised ==
    /\ trade_loop.pc = "looping"
    /\ guard.pc = "propagated"
    /\ trade_loop' = [trade_loop EXCEPT !.pc = "done", !.aborted = TRUE]
    /\ guard' = NoGuard

NextGuard ==
    \/ \E n \in 1..MaxGuardBatch : TradeLoop_Begin(n) /\ UNCHANGED restGuard
    \/ TradeLoop_Call /\ UNCHANGED restGuard
    \/ \E outcome \in {"ok", "refuse"} \cup Raised : Guard_Step(outcome) /\ UNCHANGED restGuard
    \/ TradeLoop_Returned /\ UNCHANGED restGuard
    \/ TradeLoop_Raised /\ UNCHANGED restGuard

InitGuard == CoreIdle /\ SideIdle

SpecGuard == InitGuard /\ [][NextGuard]_vars

\* C39: execute_trade never propagates an error: it returns a record with
\* success=false when the signal, the prices, the sizing, the entry order,
\* the stop-loss order or the cache update failed, whatever the compensating
\* close did, and a record with either value when only the position query,
\* the leverage or margin setting, the balance query or the take-profit order
\* failed; so a failing trade never aborts the loop over the batch, which
\* awaits execute_trade for every result.
C39_ErrorsBecomeRecords ==
    /\ ~trade_loop.cancelled => (guard.pc # "propagated" /\ ~trade_loop.aborted)
    /\ guard.pc = "returned" => guard.out \in {"success", "failure"}
    /\ (guard.pc = "returned" /\ guard.failed_at # "none") => guard.out = "failure"
    /\ (trade_loop.pc = "done" /\ ~trade_loop.cancelled)
           => Len(trade_loop.results) = trade_loop.trades

\* C39 as stated: execute_trade never propagates an error, and after a failure
\* of any exchange call its record has success=false, or success=true when
\* the failure was that of the take-profit order; so a failing trade never
\* aborts the loop over the batch.
C39_FailureOrTakeProfit ==
    /\ C39_ErrorsBecomeRecords
    /\ (guard.pc = "returned" /\ guard.out = "success") => guard.swallowed \subseteq {"take_profit"}

\* The first trade of the batch failed with an exception at its cache update,
\* which only the handler of line 421 catches, and the loop has gone on to
\* the result of the second trade.
C39_NextTradeAfterFailure ==
    /\ Len(trade_loop.results) = 2
    /\ trade_loop.results[1] = [out |-> "failure", failed_at |-> "update_cache"]
    /\ ~trade_loop.aborted

\* A trade has succeeded although its leverage or margin setting, its balance
\* query or its position query had failed.
SucceededAfterSetupFailure ==
    /\ guard.pc = "returned"
    /\ guard.out = "success"
    /\ "setup" \in guard.swallowed

====
